---- MODULE Spec2Model ----
(***************************************************************************)
(* State-machine model of the tourism application backend (src/api/apiapp):*)
(* the relational store (events, places, placetypes, locations, attendees, *)
(* messages), the per-request connection hooks and the request handlers for*)
(* event search, place recommendation, visit reports, place lookup, the    *)
(* research cross-tabulation, event creation and update, attendance and    *)
(* deletion, and the event chat; of two requests served side by side,      *)
(* statement by statement; and of the connection scope of the first        *)
(* application, app.py.                                                    *)
(*                                                                         *)
(* Abstractions, all external to the repository:                           *)
(*   - a datetime is the integer 2*day + h, h = 0 for 00:00 and h = 1 for  *)
(*     23:59 of that day (the two instants to_datetime produces when the   *)
(*     hour is omitted);                                                   *)
(*   - geopy's geodesic distance is a symmetric integer metric on a small  *)
(*     grid of points (Miles);                                             *)
(*   - an ada-002 embedding is a unit vector, represented by its angle in  *)
(*     multiples of 30 degrees; cosine similarity is 100*cos(angle diff).  *)
(***************************************************************************)
EXTENDS Integers, Sequences, FiniteSets, TLC

\* ---------------------------------------------------------------- bounds
MaxEvents == 2      \* stored events
MaxDay == 3         \* days a search window can name
MaxUsers == 2       \* registered users
MaxPlaces == 2      \* place ids known to the provider
MaxReports == 3     \* earlier visit reports behind the seeded visit records
MaxMessages == 2    \* stored chat messages

\* ------------------------------------------------------------- constants
\* None / SQL NULL and absent request arguments, one sentinel per type
NoneDt == -1                    \* no datetime
NoDistance == -1                \* "distance": None
NullText == <<"NULL">>          \* a NULL text column
NoQuery == <<"NoArg">>          \* "query" not in request.args
NoDay == 0                      \* "ey" / "ly" not in request.args
NoRadius == -1000               \* "radius" not in request.args
Inf == 1000                     \* float("inf"): above every distance of the grid
NoUser == 0                     \* no valid credentials
NoPlace == 0                    \* events.place IS NULL
NoEventArg == 0                 \* "eventid" not in request.args
NoType == "NoArg"               \* "placetype" not in request.args
THRESHOLD == 85                 \* research.get_events: 0.85, times 100
MaxAttempts == 100              \* send_message: for _ in range(100)
MaxNameLen == 255               \* validate_create_inputs: len(displayname) > 255
MaxDescriptionLen == 10000      \* validate_create_inputs: len(description) > 10000
ChatPage == 20                  \* most_recent_messages: n = 20
NoSince == 0                    \* chat_get without a time
BadDay == 99                    \* a day the calendar lacks: datetime() raises ValueError
NoArgText == <<"NoArg">>        \* a text field absent from the JSON body

Users == 1..MaxUsers
EventIds == 1..MaxEvents
PlaceIds == 1..MaxPlaces
MinLat == -90
MaxLat == 90
MinLon == -180
MaxLon == 180
SearchDays == 1..MaxDay

Abs(x) == IF x < 0 THEN -x ELSE x

Range(s) == {s[i] : i \in DOMAIN s}

\* ------------------------------------------------------------------ text
\* A text is a sequence of characters; " " and "\n" are the whitespace.
IsSpace(c) == c \in {" ", "\n"}

RECURSIVE LStrip(_)
LStrip(t) == IF t = <<>> THEN <<>>
             ELSE IF IsSpace(Head(t)) THEN LStrip(Tail(t)) ELSE t

RECURSIVE RStrip(_)
RStrip(t) == IF t = <<>> THEN <<>>
             ELSE IF IsSpace(t[Len(t)]) THEN RStrip(SubSeq(t, 1, Len(t) - 1)) ELSE t

\* str.strip()
Strip(t) == RStrip(LStrip(t))

\* str.replace("\n", " ")
ReplaceNewlines(t) == [i \in DOMAIN t |-> IF t[i] = "\n" THEN " " ELSE t[i]]

\* the string handed to the embedding provider for a search query
QueryEmbStr(query) == ReplaceNewlines(Strip(query))

\* the string handed to the embedding provider for an event (create_event)
EventEmbStr(displayname, description) ==
    IF description = NullText
    THEN ReplaceNewlines(Strip(displayname))
    ELSE ReplaceNewlines(Strip(displayname)) \o <<" ">> \o ReplaceNewlines(Strip(description))

\* ------------------------------------------------------------ embeddings
\* The provider is a deterministic black box: the angle of the vector is
\* decided by the first character of the submitted text.
GetEmbedding(text) ==
    IF text = <<>> THEN 3
    ELSE IF text[1] = "a" THEN 0
    ELSE IF text[1] = "b" THEN 1
    ELSE IF text[1] = "c" THEN 2
    ELSE 3

CosTable == <<100, 87, 50, 0>>

\* emb.cosine_similarity, times 100
CosineSimilarity(v1, v2) == CosTable[Abs(v1 - v2) + 1]

\* ---------------------------------------------------------------- points
Point(lat, lon) == [null |-> FALSE, lat |-> lat, lon |-> lon]

\* a NULL coords column, an absent location
NullPoint == [null |-> TRUE, lat |-> 0, lon |-> 0]

\* Point.distanceto(dest).miles
Miles(a, b) == Abs(a.lat - b.lat) + Abs(a.lon - b.lon)

\* x <= distance, where distance may be float("inf")
\* ------------------------------------------------------------- datetimes
\* to_datetime with hour and minute omitted: 00:00, or 23:59 when end=True
to_datetime(day, end) == 2 * day + (IF end THEN 1 ELSE 0)

\* from_datetime: the calendar fields of an exact instant
from_datetime(dt) == [day |-> dt \div 2, late |-> dt % 2]

\* ---------------------------------------------------------------- state
VARIABLES
    events,      \* table events, in scan order: sequence of rows
    places,      \* table places: id -> [name, address, coords]
    placetypes,  \* table placetypes: set of <<id, type>> rows
    locations,   \* table locations: <<placeid, eventid>> -> visits
    attendees,   \* table attendees: set of <<userid, eventid>> rows
    messages,    \* table messages: set of [eventid, time, sender, content] rows
    conn,        \* the connections the last request opened, each "open" | "closed"
    pc,          \* position of the request: "idle" | "handler" | "sending" | "after",
                 \* and "cursor" | "finally" inside dbcursor
    attempts,    \* INSERTs send_message has executed for the request in progress
    req,         \* the request handled last
    resp,        \* the response produced by the handler
    threads      \* requests handled side by side: each one's position, request,
                 \* local variables and response

vars == <<events, places, placetypes, locations, attendees, messages, conn, pc, attempts,
          req, resp, threads>>

store == <<events, places, placetypes, locations, attendees, messages>>

NoReq == [op |-> "none"]
NoResp == [status |-> 0]

\* ------------------------------------------------- sorting (list.sort)
\* list.sort(key=...) on a sequence of [key, val] pairs.  Python's sort is
\* stable: x is inserted after every element whose key is <= its own.
RECURSIVE InsertByKey(_, _)
InsertByKey(x, s) ==
    IF s = <<>> THEN <<x>>
    ELSE IF s[Len(s)].key <= x.key THEN Append(s, x)
    ELSE Append(InsertByKey(x, SubSeq(s, 1, Len(s) - 1)), s[Len(s)])

RECURSIVE SortByKey(_)
SortByKey(s) ==
    IF s = <<>> THEN <<>>
    ELSE InsertByKey(s[Len(s)], SortByKey(SubSeq(s, 1, Len(s) - 1)))

Vals(s) == [i \in DOMAIN s |-> s[i].val]

\* the rows of sequence s that satisfy Keep, in order
RECURSIVE Indices(_, _, _)
Indices(s, keep, i) ==
    IF i > Len(s) THEN <<>>
    ELSE IF keep[i] THEN <<i>> \o Indices(s, keep, i + 1)
    ELSE Indices(s, keep, i + 1)

\* ------------------------------------------------------- request hooks
\* what the environment of a request lets the connection setup do
ConnectOutcomes == {"ok", "no PSQL_CONF", "unreadable PSQL_CONF", "connect error"}

\* the exception db.connect raises: open() failing leaves file unbound,
\* so the finally clause replaces the RuntimeError by UnboundLocalError
ConnectRaises(env) == IF env = "unreadable PSQL_CONF" THEN "UnboundLocalError" ELSE "RuntimeError"

HookError(op, raised) == [op |-> op, raised |-> raised]
InternalServerError == [status |-> 500]

\* closing every connection a request holds
Close_leave_open(c) == c
Close(c) == [i \in DOMAIN c |-> "closed"]

\* db.connect (before_app_request): opens g.conn for the request, or
\* raises before any connection exists; Flask then answers 500 and still
\* runs the after-request functions
connect ==
    /\ pc = "idle"
    /\ \E env \in ConnectOutcomes :
        IF env = "ok"
        THEN /\ conn' = <<"open">>
             /\ pc' = "handler"
             /\ req' = NoReq
             /\ resp' = NoResp
        ELSE /\ conn' = <<>>
             /\ pc' = "after"
             /\ req' = HookError("connect", ConnectRaises(env))
             /\ resp' = InternalServerError
    /\ UNCHANGED <<store, attempts, threads>>

\* event.setup_openai (before_app_request, after db.connect): raises
\* KeyError when the environment has no OPENAI_KEY_PATH; the view is not
\* called and the request is answered 500
setup_openai ==
    /\ pc = "handler"
    /\ req' = HookError("setup_openai", "KeyError")
    /\ resp' = InternalServerError
    /\ pc' = "after"
    /\ UNCHANGED <<store, conn, attempts, threads>>

\* location.get_google_api_key (before_app_request, the last one): raises
\* when the key file cannot be opened
get_google_api_key ==
    /\ pc = "handler"
    /\ req' = HookError("get_google_api_key", "OSError")
    /\ resp' = InternalServerError
    /\ pc' = "after"
    /\ UNCHANGED <<store, conn, attempts, threads>>

\* db.disconnect (after_app_request): closes g.conn.  When db.connect
\* raised there is no g.conn: the AttributeError is logged by Flask and the
\* 500 response is sent.
disconnect ==
    /\ pc = "after"
    /\ conn' = Close(conn)
    /\ pc' = "idle"
    /\ attempts' = 0
    /\ req' = NoReq
    /\ resp' = NoResp
    /\ UNCHANGED <<store, threads>>

\* ------------------------------------------------ app.py: dbcursor, /apicall
\* dbcursor up to its yield.  A failure before psycopg2.connect returns
\* leaves no connection; the finally clause then raises UnboundLocalError
\* on file (unreadable PSQL_CONF) or on cur (connect error).
dbcursor ==
    /\ pc = "idle"
    /\ \E env \in ConnectOutcomes :
        IF env = "ok"
        THEN /\ conn' = <<"open">>
             /\ pc' = "cursor"
             /\ req' = HookError("apicall", "none")
             /\ resp' = NoResp
        ELSE /\ conn' = <<>>
             /\ pc' = "idle"
             /\ req' = HookError("apicall",
                                 IF env = "no PSQL_CONF" THEN "RuntimeError"
                                 ELSE "UnboundLocalError")
             /\ resp' = InternalServerError
    /\ UNCHANGED <<store, attempts, threads>>

\* the body of the with statement of apicall: the SELECT returns the
\* users, or raises psycopg2.Error, which dbcursor turns into RuntimeError
apicall ==
    /\ pc = "cursor"
    /\ \/ resp' = [status |-> 200] /\ UNCHANGED req
       \/ resp' = InternalServerError /\ req' = HookError("apicall", "RuntimeError")
    /\ pc' = "finally"
    /\ UNCHANGED <<store, conn, attempts, threads>>

\* the finally clause of dbcursor: cur.close(); conn.close()
dbcursor_finally ==
    /\ pc = "finally"
    /\ conn' = Close(conn)
    /\ pc' = "idle"
    /\ UNCHANGED <<store, attempts, req, resp, threads>>

\* ---------------------------------------------------------- event search
\* the date test both search functions apply to a row
DateSkip(row, earliest, latest) ==
    \/ (earliest # NoneDt /\ row.start < earliest)
    \/ (latest # NoneDt /\ row.end > latest)

\* get_events_by_location: the rows kept by the scan, then sorted by distance
LocationKeep(location, distance, earliest, latest) ==
    [i \in DOMAIN events |->
        /\ ~events[i].coords.null
        /\ ~DateSkip(events[i], earliest, latest)
        /\ Miles(location, events[i].coords) <= distance]

LocationItem(row, location) ==
    [id |-> row.id, displayname |-> row.displayname,
     distance |-> Miles(location, row.coords),
     location |-> row.coords,
     start |-> from_datetime(row.start), end |-> from_datetime(row.end)]

get_events_by_location(location, distance, earliest, latest) ==
    LET idx == Indices(events, LocationKeep(location, distance, earliest, latest), 1)
        items == [k \in DOMAIN idx |->
                    LET it == LocationItem(events[idx[k]], location)
                    IN [key |-> it.distance, val |-> it]]
    IN [status |-> 200, body |-> Vals(SortByKey(items)), embed |-> 0]

\* KeywordKeep without the coords / distance test of the scan
KeywordKeep_annotate_only(earliest, latest, location, distance) ==
    [i \in DOMAIN events |-> ~DateSkip(events[i], earliest, latest)]

\* get_events_by_keyword: the rows kept by the scan
KeywordKeep(earliest, latest, location, distance) ==
    [i \in DOMAIN events |->
        /\ ~DateSkip(events[i], earliest, latest)
        /\ \/ location.null
           \/ /\ ~events[i].coords.null
              /\ Miles(location, events[i].coords) <= distance]

KeywordItem(row, location) ==
    [id |-> row.id, displayname |-> row.displayname,
     location |-> row.coords,
     distance |-> IF ~row.coords.null /\ ~location.null
                  THEN Miles(location, row.coords) ELSE NoDistance,
     start |-> from_datetime(row.start), end |-> from_datetime(row.end)]

\* the query is embedded and the candidates are sorted only if
\* len(events) >= 2
NeedsRanking_always(n) == TRUE
NeedsRanking(n) == n >= 2

\* get_events_by_keyword with the similarity sort left out
get_events_by_keyword_unsorted(query, earliest, latest, location, distance) ==
    IF Strip(query) = <<>> THEN [status |-> 400, body |-> <<>>, embed |-> 0]
    ELSE
    LET idx == Indices(events, KeywordKeep(earliest, latest, location, distance), 1)
    IN [status |-> 200, body |-> [k \in DOMAIN idx |-> KeywordItem(events[idx[k]], location)],
        embed |-> 0]

get_events_by_keyword(query, earliest, latest, location, distance) ==
    IF Strip(query) = <<>> THEN [status |-> 400, body |-> <<>>, embed |-> 0]
    ELSE
    LET idx == Indices(events, KeywordKeep(earliest, latest, location, distance), 1)
        embedding == GetEmbedding(QueryEmbStr(query))
        items == [k \in DOMAIN idx |->
                    [key |-> 0 - CosineSimilarity(embedding, events[idx[k]].embedding),
                     val |-> KeywordItem(events[idx[k]], location)]]
    IN IF NeedsRanking(Len(idx))
       THEN [status |-> 200, body |-> Vals(SortByKey(items)), embed |-> 1]
       ELSE [status |-> 200, body |-> Vals(items), embed |-> 0]

\* event_search_view without the test of the radius sign
event_search_view_any_radius(query, ey, ly, loc, radius) ==
    LET startdt == IF ey = NoDay THEN NoneDt ELSE to_datetime(ey, FALSE)
        enddt == IF ly = NoDay THEN NoneDt ELSE to_datetime(ly, TRUE)
        rad == IF radius = NoRadius THEN Inf ELSE radius
    IN IF ~loc.null
       THEN IF query # NoQuery
            THEN get_events_by_keyword(query, startdt, enddt, loc, rad)
            ELSE get_events_by_location(loc, rad, startdt, enddt)
       ELSE IF query # NoQuery
            THEN get_events_by_keyword(query, startdt, enddt, NullPoint, Inf)
            ELSE [status |-> 400, body |-> <<>>, embed |-> 0]

\* the view function, after authentication
event_search_view(query, ey, ly, loc, radius) ==
    LET startdt == IF ey = NoDay THEN NoneDt ELSE to_datetime(ey, FALSE)
        enddt == IF ly = NoDay THEN NoneDt ELSE to_datetime(ly, TRUE)
        rad == IF radius = NoRadius THEN Inf ELSE radius
    IN IF ~loc.null
       THEN IF rad < 0 THEN [status |-> 400, body |-> <<>>, embed |-> 0]
            ELSE IF query # NoQuery
                 THEN get_events_by_keyword(query, startdt, enddt, loc, rad)
                 ELSE get_events_by_location(loc, rad, startdt, enddt)
       ELSE IF query # NoQuery
            THEN get_events_by_keyword(query, startdt, enddt, NullPoint, Inf)
            ELSE [status |-> 400, body |-> <<>>, embed |-> 0]

\* request inputs of GET /event/search
Queries == {NoQuery, <<" ">>, <<"a">>, <<"c", "\n">>}
SearchPoints == {NullPoint, Point(0, 0)}
Radii == {NoRadius, -1, 1}
DayArgs == {NoDay} \cup SearchDays

\* GET /event/search, wrapped in @authenticate
\* g.userid is only forwarded to the embedding provider, so the request
\* records whether the credentials were valid, not whose they were.
\* authenticate answers before the view reads an argument, so requests
\* without valid credentials are drawn without arguments.
event_search ==
    /\ pc = "handler"
    /\ \E auth \in {NoUser} \cup Users, query \in Queries, ey \in DayArgs, ly \in DayArgs,
          loc \in SearchPoints, radius \in Radii :
        /\ auth = NoUser =>
               query = NoQuery /\ ey = NoDay /\ ly = NoDay /\ loc = NullPoint /\ radius = NoRadius
        /\ req' = [op |-> "event_search", authenticated |-> auth # NoUser, query |-> query,
                   ey |-> ey, ly |-> ly, loc |-> loc, radius |-> radius]
        /\ resp' = IF auth = NoUser THEN [status |-> 401, body |-> <<>>, embed |-> 0]
                   ELSE event_search_view(query, ey, ly, loc, radius)
    /\ pc' = "after"
    /\ UNCHANGED <<store, conn, attempts, threads>>

\* ------------------------------------------------------ place provider
\* What the provider knows about a place comes in two versions: version 1
\* is what it returned when the seeded places were stored, version 2 is
\* what it returns now, so that a result can carry a stored id with
\* different data.

ProviderPlace(id, v) ==
    [id |-> id,
     displayName |-> IF v = 1 THEN "n1" ELSE "n2",
     formattedAddress |-> IF v = 1 THEN "a1" ELSE "a2",
     location |-> IF v = 1 THEN Point(0, 0) ELSE Point(0, 2),
     types |-> IF v = 1 THEN {"cafe"} ELSE {"cafe", "point_of_interest"}]

\* provider responses: lists of at most n places with distinct ids
RECURSIVE ProviderResponses(_)
ProviderResponses(n) ==
    IF n = 0 THEN {<<>>}
    ELSE LET prev == ProviderResponses(n - 1)
         IN prev \cup
            {Append(r, ProviderPlace(id, 2)) :
                r \in {x \in prev : Len(x) = n - 1}, id \in PlaceIds}

DistinctIds(r) == \A i, j \in DOMAIN r : r[i].id = r[j].id => i = j

Responses == {r \in ProviderResponses(MaxPlaces) : DistinctIds(r)}

\* ------------------------------------------------------- authentication
\* auth.authenticate: the user id the credentials resolve to, or NoUser
Credentials == {NoUser} \cup Users

\* responses of the place handlers; calls counts the requests made to the
\* place provider (text search, reverse geocode)
Unauthorized == [status |-> 401, body |-> <<>>, ranked |-> <<>>, results |-> <<>>, calls |-> 0]
BadRequest == [status |-> 400, body |-> <<>>, ranked |-> <<>>, results |-> <<>>, calls |-> 0]
NotFound == [status |-> 404, body |-> <<>>, ranked |-> <<>>, results |-> <<>>, calls |-> 0]
ServerError(results, calls) ==
    [status |-> 500, body |-> <<>>, ranked |-> <<>>, results |-> results, calls |-> calls]

\* ------------------------------------------------------ recommendations
RECURSIVE SumOver(_, _)
SumOver(f, S) ==
    IF S = {} THEN 0
    ELSE LET x == CHOOSE y \in S : TRUE IN f[x] + SumOver(f, S \ {x})

\* the check-then-insert loop over the provider's places (lines 73-82)
RECURSIVE UpsertPlaces(_, _, _)
UpsertPlaces(res, pl, pt) ==
    IF res = <<>> THEN [places |-> pl, placetypes |-> pt]
    ELSE LET c == Head(res)
         IN IF c.id \in DOMAIN pl
            THEN UpsertPlaces(Tail(res), pl, pt)
            ELSE UpsertPlaces(Tail(res),
                    [i \in DOMAIN pl \cup {c.id} |->
                        IF i = c.id
                        THEN [name |-> c.displayName, address |-> c.formattedAddress,
                              coords |-> c.location]
                        ELSE pl[i]],
                    pt \cup {<<c.id, t>> : t \in c.types})

\* SELECT eventid FROM attendees WHERE userid = g.userid
AttendedEvents(userid) == {a[2] : a \in {x \in attendees : x[1] = userid}}

\* VisitsOf summing over every event instead of the attended ones
VisitsOf_all_events(pid, attended) ==
    LET rows == {k \in DOMAIN locations : k[1] = pid}
    IN SumOver(locations, rows)

\* SELECT placeid, SUM(visits) FROM locations WHERE eventid = ANY(events)
\* GROUP BY placeid, and the assignment loop over the candidates
VisitsOf(pid, attended) ==
    LET rows == {k \in DOMAIN locations : k[1] = pid /\ k[2] \in attended}
    IN SumOver(locations, rows)

\* the sort key of places.sort
RankKey_promote_visited(p) == p.index - p.visits

RankKey(p) == p.visits + p.index

\* the candidates with their visits, ranked (lines 70-72, 83-95)
Ranked(res, userid) ==
    LET cand == [k \in DOMAIN res |->
                    [index |-> k - 1, place |-> res[k],
                     visits |-> VisitsOf(res[k].id, AttendedEvents(userid))]]
    IN Vals(SortByKey([k \in DOMAIN cand |-> [key |-> RankKey(cand[k]), val |-> cand[k]]]))

RecommendationItem(p, loc) ==
    [name |-> p.place.displayName, address |-> p.place.formattedAddress,
     location |-> p.place.location, distance |-> Miles(loc, p.place.location)]

Categories == {NoQuery, <<>>, <<" ">>, <<"c">>}
Origins == {NullPoint, Point(MaxLat + 1, 0), Point(0, 0)}
RadArgs == {NoRadius, 5}

\* the range test without its latitude half
ValidOrigin_any_latitude(loc) ==
    /\ ~loc.null
    /\ MinLon <= loc.lon /\ loc.lon <= MaxLon

\* "lat" and "lon" present and inside their ranges (lines 32-42)
ValidOrigin(loc) ==
    /\ ~loc.null
    /\ MinLat <= loc.lat /\ loc.lat <= MaxLat
    /\ MinLon <= loc.lon /\ loc.lon <= MaxLon

\* GET /recommend, wrapped in @authenticate.  A request that names "rad"
\* multiplies the string argument by a float, which raises TypeError (only
\* ValueError is caught) before the provider is called.  Requests without
\* valid credentials are drawn without arguments, and "rad" is drawn only
\* on requests that reach the line reading it.
get_recommendations ==
    /\ pc = "handler"
    /\ \E auth \in Credentials, q \in Categories, loc \in Origins, rad \in RadArgs, res \in Responses :
        LET reachesRad == auth # NoUser /\ q # NoQuery /\ Strip(q) # <<>> /\ ValidOrigin(loc)
            early ==
                IF auth = NoUser THEN Unauthorized
                ELSE IF q = NoQuery \/ Strip(q) = <<>> THEN BadRequest
                ELSE IF ~ValidOrigin(loc) THEN BadRequest
                ELSE IF rad # NoRadius THEN ServerError(<<>>, 0)
                ELSE NoResp
        IN /\ auth = NoUser => q = NoQuery /\ loc = NullPoint
           /\ rad # NoRadius => reachesRad
           /\ req' = [op |-> "get_recommendations", auth |-> auth, q |-> q, loc |-> loc,
                      rad |-> rad, provider |-> IF early = NoResp THEN res ELSE <<>>]
           /\ IF early # NoResp
              THEN /\ res = <<>>
                   /\ resp' = early
                   /\ UNCHANGED <<places, placetypes>>
              ELSE \E up \in {UpsertPlaces(res, places, placetypes)}, ranked \in {Ranked(res, auth)} :
                      /\ places' = up.places
                      /\ placetypes' = up.placetypes
                      /\ resp' = [status |-> 200,
                                  body |-> [k \in DOMAIN ranked |-> RecommendationItem(ranked[k], loc)],
                                  ranked |-> ranked, results |-> res, calls |-> 1]
    /\ pc' = "after"
    /\ UNCHANGED <<events, locations, attendees, messages, conn, attempts, threads>>

\* ---------------------------------------------------------- visit report
\* Point.getplaces on a reverse-geocode response.  For the first place of
\* the response the method raises: when the id is unseen, the INSERT INTO
\* places passes 4 parameters for 3 placeholders (psycopg ProgrammingError);
\* when the id is stored, Place(id, name, types) lacks the fourth field of
\* the dataclass (TypeError).  Neither is caught; no row is written.
getplaces(response) ==
    IF response = <<>> THEN [raised |-> FALSE, places |-> <<>>]
    ELSE [raised |-> TRUE, places |-> <<>>]

\* RecordVisits deleting the event's records before it counts the places
RecordVisits_recount(plist, eventid, locs) ==
    LET kept == {k \in DOMAIN locs : k[2] # eventid}
        keys == kept \cup {<<plist[i].id, eventid>> : i \in DOMAIN plist}
    IN [k \in keys |->
           (IF k \in kept THEN locs[k] ELSE 0)
               + Cardinality({i \in DOMAIN plist : <<plist[i].id, eventid>> = k})]

\* the loop of visit_location over the places of the point (lines 95-100):
\* a missing (place, event) record is inserted, then its counter is raised
\* by one, once per place of the list
RecordVisits(plist, eventid, locs) ==
    LET keys == DOMAIN locs \cup {<<plist[i].id, eventid>> : i \in DOMAIN plist}
    IN [k \in keys |->
           (IF k \in DOMAIN locs THEN locs[k] ELSE 0)
               + Cardinality({i \in DOMAIN plist : <<plist[i].id, eventid>> = k})]

\* the reverse geocode of one point: no place of interest there, or one
GeocodeResponses == {r \in Responses : Len(r) <= 1}

\* POST /location/event/<eventid> (location_get, visit_location); the
\* route is not wrapped in @authenticate.
visit_location ==
    /\ pc = "handler"
    /\ \E eventid \in 1..(MaxEvents + 1), res \in GeocodeResponses :
        LET exists == \E i \in DOMAIN events : events[i].id = eventid
        IN /\ req' = [op |-> "visit_location", eventid |-> eventid,
                      provider |-> IF exists THEN res ELSE <<>>]
           /\ IF ~exists
              THEN /\ res = <<>>
                   /\ resp' = NotFound
                   /\ UNCHANGED locations
              ELSE IF getplaces(res).raised
              THEN /\ resp' = ServerError(res, 1)
                   /\ UNCHANGED locations
              ELSE /\ resp' = [status |-> 204, body |-> <<>>, ranked |-> <<>>, results |-> res,
                               calls |-> 1]
                   /\ locations' = RecordVisits(getplaces(res).places, eventid, locations)
    /\ pc' = "after"
    /\ UNCHANGED <<events, places, placetypes, attendees, messages, conn, attempts, threads>>

\* ---------------------------------------------------- requests side by side
\* Two requests served at the same time, each on a connection of its own
\* opened with autocommit=True (db.py line 45): every statement of a handler
\* is a transaction of its own, so the statements of the two handlers
\* interleave in any order.  threads[t] holds the position of request t in
\* its handler, the provider's response it works on, the index of the place
\* its loop has reached, and its answer (status 0: not answered yet).
Requests == {1, 2}

IdleThread ==
    [pc |-> "idle", op |-> "none", auth |-> NoUser, eventid |-> NoEventArg,
     provider |-> <<>>, i |-> 0, status |-> 0]

Answered(th, status) == [th EXCEPT !.pc = "done", !.status = status]

\* places.id is the primary key of the table: an INSERT of a stored id is
\* refused by the database (psycopg.errors.UniqueViolation)
DuplicateKey(id, pl) == id \in DOMAIN pl

\* a stored place as get_recommendations writes it from a provider result
StoredPlace(c) == [name |-> c.displayName, address |-> c.formattedAddress, coords |-> c.location]

\* the loop of lines 74-82 moves on to its next place, or ends
NextPlace(th) ==
    IF th.i < Len(th.provider)
    THEN [th EXCEPT !.pc = "select", !.i = th.i + 1]
    ELSE [th EXCEPT !.pc = "rank", !.i = th.i + 1]

\* GET /recommend with valid arguments, up to the text search of the
\* provider (lines 21-72).  The view is wrapped in @authenticate, which
\* aborts with 401 before the view runs when the credentials resolve to no
\* user (auth.py lines 17-29).
recommend_search(t) ==
    /\ threads # <<>>
    /\ threads[t].pc = "idle"
    /\ \E auth \in Credentials, res \in Responses :
        LET th == [IdleThread EXCEPT !.op = "get_recommendations", !.auth = auth]
        IN IF auth = NoUser
           THEN /\ res = <<>>
                /\ threads' = [threads EXCEPT ![t] = Answered(th, 401)]
           ELSE threads' = [threads EXCEPT ![t] = NextPlace([th EXCEPT !.provider = res])]
    /\ UNCHANGED <<store, conn, pc, attempts, req, resp>>

\* SELECT COUNT(*) FROM places WHERE id = %s (lines 75-77)
recommend_select(t) ==
    /\ threads # <<>>
    /\ threads[t].pc = "select"
    /\ threads[t].op = "get_recommendations"
    /\ LET th == threads[t]
       IN threads' = [threads EXCEPT ![t] =
              IF th.provider[th.i].id \in DOMAIN places
              THEN NextPlace(th)
              ELSE [th EXCEPT !.pc = "insert"]]
    /\ UNCHANGED <<store, conn, pc, attempts, req, resp>>

\* INSERT INTO places (lines 78-80), reached when the SELECT counted no
\* row.  A row another request stored since then makes the INSERT raise;
\* nothing catches it and the request is answered 500.
recommend_insert(t) ==
    /\ threads # <<>>
    /\ threads[t].pc = "insert"
    /\ LET th == threads[t]
           c == th.provider[th.i]
       IN IF DuplicateKey(c.id, places)
          THEN /\ threads' = [threads EXCEPT ![t] = Answered(th, 500)]
               /\ UNCHANGED places
          ELSE /\ places' = [id \in DOMAIN places \cup {c.id} |->
                                IF id = c.id THEN StoredPlace(c) ELSE places[id]]
               /\ threads' = [threads EXCEPT ![t].pc = "types"]
    /\ UNCHANGED <<events, placetypes, locations, attendees, messages, conn, pc, attempts,
                   req, resp>>

\* INSERT INTO placetypes, once per type of the place (lines 81-82); only
\* the request whose INSERT INTO places stored the row gets here
recommend_types(t) ==
    /\ threads # <<>>
    /\ threads[t].pc = "types"
    /\ LET th == threads[t]
           c == th.provider[th.i]
       IN /\ placetypes' = placetypes \cup {<<c.id, ty>> : ty \in c.types}
          /\ threads' = [threads EXCEPT ![t] = NextPlace(th)]
    /\ UNCHANGED <<events, places, locations, attendees, messages, conn, pc, attempts,
                   req, resp>>

\* the visits of the attended events, the sort and the answer (lines 83-107)
recommend_return(t) ==
    /\ threads # <<>>
    /\ threads[t].pc = "rank"
    /\ threads[t].op = "get_recommendations"
    /\ \E ranked \in {Ranked(threads[t].provider, threads[t].auth)} :
           threads' = [threads EXCEPT ![t] = Answered(threads[t], 200)]
    /\ UNCHANGED <<store, conn, pc, attempts, req, resp>>

\* POST /location/event/<eventid> up to the reverse geocode: the event is
\* looked up (lines 90-93, abort(404)), then getplaces asks the provider
\* (line 28).  location_get is not wrapped in @authenticate: the credentials
\* of the request, valid or not, are never read.
visit_lookup(t) ==
    /\ threads # <<>>
    /\ threads[t].pc = "idle"
    /\ \E auth \in Credentials, eventid \in 1..(MaxEvents + 1), res \in GeocodeResponses :
        LET th == [IdleThread EXCEPT !.op = "visit_location", !.auth = auth,
                                     !.eventid = eventid]
        IN IF ~\E k \in DOMAIN events : events[k].id = eventid
           THEN /\ res = <<>>
                /\ threads' = [threads EXCEPT ![t] = Answered(th, 404)]
           ELSE threads' = [threads EXCEPT ![t] =
                    [th EXCEPT !.provider = res, !.i = 1,
                               !.pc = IF res = <<>> THEN "record" ELSE "select"]]
    /\ UNCHANGED <<store, conn, pc, attempts, req, resp>>

\* getplaces: SELECT COUNT(*) FROM places WHERE id = %s (lines 39-40)
getplaces_select(t) ==
    /\ threads # <<>>
    /\ threads[t].pc = "select"
    /\ threads[t].op = "visit_location"
    /\ LET th == threads[t]
       IN threads' = [threads EXCEPT ![t].pc =
              IF th.provider[th.i].id \in DOMAIN places THEN "place" ELSE "execute"]
    /\ UNCHANGED <<store, conn, pc, attempts, req, resp>>

\* getplaces raises on the place: the INSERT of line 43 when the SELECT
\* counted no row (ProgrammingError, raised by psycopg before the statement
\* reaches the database), Place(id, name, types) of line 50 when it counted
\* one (TypeError).  The request is answered 500 and has written nothing.
getplaces_raise(t) ==
    /\ threads # <<>>
    /\ threads[t].pc \in {"execute", "place"}
    /\ getplaces(threads[t].provider).raised
    /\ threads' = [threads EXCEPT ![t] = Answered(threads[t], 500)]
    /\ UNCHANGED <<store, conn, pc, attempts, req, resp>>

\* the loop of visit_location over the places getplaces returned (lines
\* 95-100) and the answer 204; getplaces returns only the empty list
visit_return(t) ==
    /\ threads # <<>>
    /\ threads[t].pc = "record"
    /\ LET th == threads[t]
       IN /\ ~getplaces(th.provider).raised
          /\ locations' = RecordVisits(getplaces(th.provider).places, th.eventid, locations)
          /\ threads' = [threads EXCEPT ![t] = Answered(th, 204)]
    /\ UNCHANGED <<events, places, placetypes, attendees, messages, conn, pc, attempts,
                   req, resp>>

\* ------------------------------------------------ event create / patch
\* int() accepts the day, datetime() accepts it only when it is on the calendar
ValidDay(day) == day # BadDay

Error(field, description) == [field |-> field, description |-> description]

\* validate_create_inputs.  Both try blocks assign to startdt (lines 44 and
\* 48) and enddt stays None, so the comparison of line 51 is never made.
validate_create_inputs(displayname, start, end, description, location) ==
    LET startdt == IF ValidDay(end) THEN to_datetime(end, TRUE)
                   ELSE IF ValidDay(start) THEN to_datetime(start, FALSE)
                   ELSE NoneDt
        enddt == NoneDt
    IN (IF Strip(displayname) = <<>>
        THEN <<Error("displayname", "You must enter a display name.")>> ELSE <<>>)
       \o (IF Len(displayname) > MaxNameLen
           THEN <<Error("displayname", "Display name must be less than 256 characters long.")>>
           ELSE <<>>)
       \o (IF description # NullText /\ Len(description) > MaxDescriptionLen
           THEN <<Error("description", "Description must be at most 10000 characters long.")>>
           ELSE <<>>)
       \o (IF ~ValidDay(start) THEN <<Error("start", "Not a valid date.")>> ELSE <<>>)
       \o (IF ~ValidDay(end) THEN <<Error("end", "Not a valid date.")>> ELSE <<>>)
       \o (IF startdt # NoneDt /\ enddt # NoneDt /\ startdt > enddt
           THEN <<Error("end", "End date cannot be earlier than start date.")>> ELSE <<>>)
       \o (IF ~location.null /\ ~(MinLat <= location.lat /\ location.lat <= MaxLat)
           THEN <<Error("location", "Latitude must be between -90 and 90 degrees.")>>
           ELSE <<>>)
       \o (IF ~location.null /\ ~(MinLon <= location.lon /\ location.lon <= MaxLon)
           THEN <<Error("location", "Longitude must be between -180 and 180 degrees.")>>
           ELSE <<>>)

\* create_event: the embedding is requested, then the INSERT passes five
\* parameters for four placeholders (lines 70-71); psycopg raises
\* ProgrammingError before the statement is sent and no row is written.
create_event(displayname, start, end, description, location, userid) ==
    [raised |-> TRUE, events |-> events, id |-> 0,
     embedding |-> GetEmbedding(EventEmbStr(displayname, description))]

EventError(status, errors, embed) ==
    [status |-> status, errors |-> errors, id |-> 0, embed |-> embed]

\* request inputs of POST /event and PATCH /event/<id>
LongName == [i \in 1..(MaxNameLen + 1) |-> "a"]
LongDescription == [i \in 1..(MaxDescriptionLen + 1) |-> "c"]
CreateNames == {<<" ">>, <<"a">>, <<"b", "\n">>, LongName}
CreateDescriptions == {NullText, <<"c">>, LongDescription}
CreateDays == {1, 2, BadDay}
CreateLocations == {NullPoint, Point(0, 0), Point(MaxLat + 1, 0), Point(MaxLat + 1, MaxLon + 1)}

\* POST /event (create), wrapped in @authenticate; requests without valid
\* credentials are drawn with one body
create ==
    /\ pc = "handler"
    /\ \E auth \in Credentials, displayname \in CreateNames, description \in CreateDescriptions,
          start \in CreateDays, end \in CreateDays, location \in CreateLocations :
        LET errors == validate_create_inputs(displayname, start, end, description, location)
            made == create_event(displayname, start, end, description, location, auth)
        IN /\ auth = NoUser =>
                  /\ displayname = <<"a">> /\ description = NullText
                  /\ start = 1 /\ end = 1 /\ location = NullPoint
           /\ req' = [op |-> "create", auth |-> auth, displayname |-> displayname,
                      description |-> description, start |-> start, end |-> end,
                      location |-> location]
           /\ IF auth = NoUser
              THEN resp' = EventError(401, <<>>, 0) /\ UNCHANGED events
              ELSE IF errors # <<>>
              THEN resp' = EventError(422, errors, 0) /\ UNCHANGED events
              ELSE IF made.raised
              THEN resp' = EventError(500, <<>>, 1) /\ UNCHANGED events
              ELSE /\ resp' = [status |-> 200, errors |-> <<>>, id |-> made.id, embed |-> 1]
                   /\ events' = made.events
    /\ pc' = "after"
    /\ UNCHANGED <<places, placetypes, locations, attendees, messages, conn, attempts, threads>>

\* update_event_settings on a stored row.  start and end are bound only
\* when the body names them (lines 444-447), so a body that lacks either
\* raises UnboundLocalError at line 454; a body that names both hands
\* validate_create_inputs two datetime objects, which to_datetime indexes
\* like dicts (TypeError), unless to_datetime already raised ValueError on
\* a day the calendar lacks.  Nothing is written on any of these paths.
update_event_settings(row, userid, kw) ==
    IF userid # row.host THEN [status |-> 403, raised |-> "abort"]
    ELSE IF kw.start # NoDay /\ ~ValidDay(kw.start) THEN [status |-> 500, raised |-> "ValueError"]
    ELSE IF kw.end # NoDay /\ ~ValidDay(kw.end)
    THEN [status |-> 500, raised |-> "ValueError"]
    ELSE IF kw.start = NoDay \/ kw.end = NoDay
    THEN [status |-> 500, raised |-> "UnboundLocalError"]
    ELSE [status |-> 500, raised |-> "TypeError"]

PatchNames == {NoArgText, <<"b">>}
PatchDescriptions == {NoArgText, <<"c">>}
PatchDays == {NoDay} \cup CreateDays

\* PATCH /event/<eventid> (event_patch), wrapped in @authenticate
event_patch ==
    /\ pc = "handler"
    /\ \E auth \in Credentials, eventid \in 1..(MaxEvents + 1), displayname \in PatchNames,
          description \in PatchDescriptions, start \in PatchDays, end \in PatchDays :
        LET kw == [displayname |-> displayname, description |-> description,
                   start |-> start, end |-> end]
            stored == \E i \in DOMAIN events : events[i].id = eventid
        IN /\ (auth = NoUser \/ ~stored) =>
                  /\ displayname = NoArgText /\ description = NoArgText
                  /\ start = NoDay /\ end = NoDay
           /\ req' = [op |-> "event_patch", auth |-> auth, eventid |-> eventid, kw |-> kw]
           /\ resp' = IF auth = NoUser THEN EventError(401, <<>>, 0)
                      ELSE IF ~stored THEN EventError(404, <<>>, 0)
                      ELSE EventError(
                               update_event_settings(
                                   CHOOSE r \in Range(events) : r.id = eventid, auth, kw).status,
                               <<>>, 0)
    /\ pc' = "after"
    /\ UNCHANGED <<store, conn, attempts, threads>>

\* ------------------------------------------------ attendance and deletion
StatusOnly(status) == [status |-> status]

EventStored(eventid) == \E i \in DOMAIN events : events[i].id = eventid

\* the stored row of a stored event
EventRow(eventid) == CHOOSE r \in Range(events) : r.id = eventid

\* event_add_user: the new status and the new table attendees.  The table
\* is the set of its rows; the INSERT runs only when the SELECT COUNT found
\* no row for the pair.
event_add_user_always_insert(eventid, userid, guserid) ==
    IF ~EventStored(eventid) THEN [status |-> 404, attendees |-> attendees]
    ELSE IF userid # guserid THEN [status |-> 403, attendees |-> attendees]
    ELSE [status |-> 201, attendees |-> attendees \cup {<<guserid, eventid>>}]
event_add_user(eventid, userid, guserid) ==
    IF ~EventStored(eventid) THEN [status |-> 404, attendees |-> attendees]
    ELSE IF userid # guserid THEN [status |-> 403, attendees |-> attendees]
    ELSE IF <<guserid, eventid>> \notin attendees
    THEN [status |-> 201, attendees |-> attendees \cup {<<guserid, eventid>>}]
    ELSE [status |-> 204, attendees |-> attendees]

\* PUT /event/<eventid>/user/<userid> (event_user_put), wrapped in
\* @authenticate
event_user_put ==
    /\ pc = "handler"
    /\ \E auth \in Credentials, eventid \in 1..(MaxEvents + 1), userid \in Users :
        /\ auth = NoUser => eventid = 1 /\ userid = 1
        /\ req' = [op |-> "event_user_put", auth |-> auth, eventid |-> eventid,
                   userid |-> userid]
        /\ IF auth = NoUser
           THEN resp' = StatusOnly(401) /\ UNCHANGED attendees
           ELSE \E done \in {event_add_user(eventid, userid, auth)} :
                    /\ resp' = StatusOnly(done.status)
                    /\ attendees' = done.attendees
    /\ pc' = "after"
    /\ UNCHANGED <<events, places, placetypes, locations, messages, conn, attempts, threads>>

\* delete_event: the new status and the new table events.  The DELETE
\* names the table events only; rows of other tables are left to the
\* schema, which the repository does not hold, and stay as they are here.
delete_event_any_user(eventid, guserid) ==
    IF ~EventStored(eventid) THEN [status |-> 404, events |-> events]
    ELSE [status |-> 204, events |-> SelectSeq(events, LAMBDA r : r.id # eventid)]
delete_event(eventid, guserid) ==
    IF ~EventStored(eventid) THEN [status |-> 404, events |-> events]
    ELSE IF EventRow(eventid).host # guserid THEN [status |-> 403, events |-> events]
    ELSE [status |-> 204, events |-> SelectSeq(events, LAMBDA r : r.id # eventid)]

\* DELETE /event/<eventid> (event_delete), wrapped in @authenticate
event_delete ==
    /\ pc = "handler"
    /\ \E auth \in Credentials, eventid \in 1..(MaxEvents + 1) :
        /\ auth = NoUser => eventid = 1
        /\ req' = [op |-> "event_delete", auth |-> auth, eventid |-> eventid]
        /\ IF auth = NoUser
           THEN resp' = StatusOnly(401) /\ UNCHANGED events
           ELSE \E done \in {delete_event(eventid, auth)} :
                    /\ resp' = StatusOnly(done.status)
                    /\ events' = done.events
    /\ pc' = "after"
    /\ UNCHANGED <<places, placetypes, locations, attendees, messages, conn, attempts, threads>>

\* ------------------------------------------------------------ event chat
\* validate_message: a description of the error, or None.  The test on
\* 2000 characters is left out: no text of the model is that long.
NoDescription == "None"
validate_message(text) ==
    IF Len(text) = 0 THEN "Message cannot be empty." ELSE NoDescription

ChatResponse(status, description, time) ==
    [status |-> status, description |-> description, time |-> time]

\* the times (unique per event) the messages of an event hold
TimesOf(eventid) == {m.time : m \in {x \in messages : x.eventid = eventid}}
MessageTimes == 1..MaxMessages

\* the loop of send_message ends when range(100) is used up
Exhausted_one_more(n) == n >= MaxAttempts + 1
Exhausted(n) == n >= MaxAttempts

\* bodies of POST /event/<id>/chat: text absent, empty or present, and a
\* body that carries the key eventid
ChatBodies ==
    {[text |-> NoArgText, eventid |-> FALSE], [text |-> <<>>, eventid |-> FALSE],
     [text |-> <<"a">>, eventid |-> FALSE], [text |-> <<"a">>, eventid |-> TRUE]}

\* POST /event/<eventid>/chat (chat_post, wrapped in @authenticate) up to
\* the first INSERT of send_message.  A dict returned by validate_message
\* is returned by the view as it is, which Flask answers with status 200.
chat_post ==
    /\ pc = "handler"
    /\ \E auth \in Credentials, eventid \in 1..(MaxEvents + 1), body \in ChatBodies :
        LET errors == validate_message(body.text)
            stored == \E i \in DOMAIN events : events[i].id = eventid
        IN /\ auth = NoUser => body = [text |-> <<"a">>, eventid |-> FALSE] /\ eventid = 1
           /\ req' = [op |-> "chat_post", auth |-> auth, eventid |-> eventid, body |-> body]
           /\ IF auth = NoUser
              THEN resp' = ChatResponse(401, NoDescription, 0) /\ pc' = "after"
              ELSE IF body.text = NoArgText \/ body.eventid
              THEN resp' = ChatResponse(400, NoDescription, 0) /\ pc' = "after"
              ELSE IF errors # NoDescription
              THEN resp' = ChatResponse(200, errors, 0) /\ pc' = "after"
              ELSE IF ~stored
              THEN resp' = ChatResponse(404, NoDescription, 0) /\ pc' = "after"
              ELSE IF <<auth, eventid>> \notin attendees
              THEN resp' = ChatResponse(403, NoDescription, 0) /\ pc' = "after"
              ELSE /\ Cardinality(messages) < MaxMessages
                   /\ resp' = NoResp
                   /\ pc' = "sending"
    /\ UNCHANGED <<store, conn, attempts, threads>>

\* one pass of the loop of send_message: the INSERT either raises
\* UniqueViolation, which needs a stored message of the event holding the
\* time the database chose, and the loop sleeps and goes on; or it stores
\* the message under a time the event does not hold yet and the view
\* returns that time.
send_message_insert ==
    /\ pc = "sending"
    /\ ~Exhausted(attempts)
    /\ attempts' = attempts + 1
    /\ \/ /\ TimesOf(req.eventid) # {}
          /\ UNCHANGED <<messages, pc, resp>>
       \/ \E time \in MessageTimes \ TimesOf(req.eventid) :
            /\ messages' = messages \cup
                   {[eventid |-> req.eventid, time |-> time, sender |-> req.auth,
                     content |-> req.body.text]}
            /\ resp' = ChatResponse(200, NoDescription, time)
            /\ pc' = "after"
    /\ UNCHANGED <<events, places, placetypes, locations, attendees, conn, req, threads>>

\* the loop of send_message ran out: print and abort(500)
send_message_timeout ==
    /\ pc = "sending"
    /\ Exhausted(attempts)
    /\ resp' = ChatResponse(500, NoDescription, 0)
    /\ pc' = "after"
    /\ UNCHANGED <<store, conn, attempts, req, threads>>

\* ORDER BY messages.time DESC on the messages of one event, whose times
\* are distinct
RECURSIVE ByTimeDesc(_)
ByTimeDesc(M) ==
    IF M = {} THEN <<>>
    ELSE LET last == CHOOSE m \in M : \A x \in M : x.time <= m.time
         IN <<last>> \o ByTimeDesc(M \ {last})

\* LIMIT n
Limit(rows, n) == SubSeq(rows, 1, IF Len(rows) < n THEN Len(rows) ELSE n)

\* most_recent_messages: the status and the messages returned
most_recent_messages_any_user(since, eventid, guserid) ==
    IF ~EventStored(eventid) THEN [status |-> 404, messages |-> <<>>]
    ELSE LET rows == {m \in messages : /\ m.eventid = eventid
                                       /\ since # NoSince => m.time < since}
         IN [status |-> 200,
             messages |-> [i \in DOMAIN Limit(ByTimeDesc(rows), ChatPage) |->
                              [time |-> Limit(ByTimeDesc(rows), ChatPage)[i].time,
                               text |-> Limit(ByTimeDesc(rows), ChatPage)[i].content,
                               sender |-> Limit(ByTimeDesc(rows), ChatPage)[i].sender]]]
most_recent_messages(since, eventid, guserid) ==
    IF ~EventStored(eventid) THEN [status |-> 404, messages |-> <<>>]
    ELSE IF guserid # EventRow(eventid).host /\ <<guserid, eventid>> \notin attendees
    THEN [status |-> 403, messages |-> <<>>]
    ELSE LET rows == {m \in messages : /\ m.eventid = eventid
                                       /\ since # NoSince => m.time < since}
         IN [status |-> 200,
             messages |-> [i \in DOMAIN Limit(ByTimeDesc(rows), ChatPage) |->
                              [time |-> Limit(ByTimeDesc(rows), ChatPage)[i].time,
                               text |-> Limit(ByTimeDesc(rows), ChatPage)[i].content,
                               sender |-> Limit(ByTimeDesc(rows), ChatPage)[i].sender]]]

\* GET /event/<eventid>/chat and /event/<eventid>/chat/<time> (chat_get),
\* wrapped in @authenticate
chat_get ==
    /\ pc = "handler"
    /\ \E auth \in Credentials, eventid \in 1..(MaxEvents + 1),
          since \in {NoSince} \cup MessageTimes :
        /\ auth = NoUser => eventid = 1 /\ since = NoSince
        /\ req' = [op |-> "chat_get", auth |-> auth, eventid |-> eventid, since |-> since]
        /\ resp' = IF auth = NoUser THEN [status |-> 401, messages |-> <<>>]
                   ELSE most_recent_messages(since, eventid, auth)
    /\ pc' = "after"
    /\ UNCHANGED <<store, conn, attempts, threads>>

\* delete_message: the status and the new table messages
delete_message(eventid, time, guserid) ==
    IF ~EventStored(eventid) THEN [status |-> 404, messages |-> messages]
    ELSE IF time \notin TimesOf(eventid) THEN [status |-> 404, messages |-> messages]
    ELSE LET msg == CHOOSE m \in messages : m.eventid = eventid /\ m.time = time
         IN IF guserid # EventRow(eventid).host /\ guserid # msg.sender
            THEN [status |-> 403, messages |-> messages]
            ELSE [status |-> 204, messages |-> messages \ {msg}]

\* DELETE /event/<eventid>/chat/<time> (chat_delete), wrapped in
\* @authenticate
chat_delete ==
    /\ pc = "handler"
    /\ \E auth \in Credentials, eventid \in 1..(MaxEvents + 1), time \in MessageTimes :
        /\ auth = NoUser => eventid = 1 /\ time = 1
        /\ req' = [op |-> "chat_delete", auth |-> auth, eventid |-> eventid, time |-> time]
        /\ IF auth = NoUser
           THEN resp' = StatusOnly(401) /\ UNCHANGED messages
           ELSE \E done \in {delete_message(eventid, time, auth)} :
                    /\ resp' = StatusOnly(done.status)
                    /\ messages' = done.messages
    /\ pc' = "after"
    /\ UNCHANGED <<events, places, placetypes, locations, attendees, conn, attempts, threads>>

\* ------------------------------------------------- research cross-tab
\* a (location, radius) filter of GET /research; NoCircle when one of its
\* three arguments is absent
Circle(loc, rad) == [loc |-> loc, rad |-> rad]
NoCircle == Circle(NullPoint, NoRadius)

\* SELECT type FROM placetypes WHERE id = %s
PlaceTypes(id) == {r[2] : r \in {x \in placetypes : x[1] = id}}

\* research.get_event_name: the name of the event, NullText for None
get_event_name(eventid) ==
    IF \E i \in DOMAIN events : events[i].id = eventid
    THEN (CHOOSE r \in Range(events) : r.id = eventid).displayname
    ELSE NullText

\* EventKeep with the similarity test left out
EventKeep_no_threshold(row, eventquery, startdate, enddate, eventlocation) ==
    /\ row.place \in DOMAIN places
    /\ ~(enddate # NoneDt /\ row.start > enddate)
    /\ ~(startdate # NoneDt /\ row.end < startdate)
    /\ ~eventlocation.loc.null =>
           Miles(eventlocation.loc, places[row.place].coords) <= eventlocation.rad

\* research.get_events, one row of events JOIN places: the row is appended
\* unless one of the four tests skips it
EventKeep(row, eventquery, startdate, enddate, eventlocation) ==
    /\ row.place \in DOMAIN places
    /\ ~(enddate # NoneDt /\ row.start > enddate)
    /\ ~(startdate # NoneDt /\ row.end < startdate)
    /\ ~eventlocation.loc.null =>
           Miles(eventlocation.loc, places[row.place].coords) <= eventlocation.rad
    /\ (eventquery # NoQuery /\ Strip(eventquery) # <<>>) =>
           CosineSimilarity(GetEmbedding(QueryEmbStr(eventquery)), row.embedding) >= THRESHOLD

get_events(eventquery, startdate, enddate, eventlocation) ==
    LET keep == [i \in DOMAIN events |->
                    EventKeep(events[i], eventquery, startdate, enddate, eventlocation)]
        idx == Indices(events, keep, 1)
    IN [k \in DOMAIN idx |->
           [id |-> events[idx[k]].id, displayname |-> events[idx[k]].displayname]]

\* the rows of locations JOIN places, one per visit record, by event and place
KeyCode(k) == k[2] * (MaxPlaces + 1) + k[1]

RECURSIVE KeySeq(_)
KeySeq(K) ==
    IF K = {} THEN <<>>
    ELSE LET k == CHOOSE x \in K : \A y \in K : KeyCode(x) <= KeyCode(y)
         IN <<k>> \o KeySeq(K \ {k})

\* research.get_places on a list of event dicts
get_places(eventlist, placetype, placelocation) ==
    IF eventlist = <<>> THEN <<>>
    ELSE LET eids == {eventlist[i].id : i \in DOMAIN eventlist}
             rows == KeySeq({k \in DOMAIN locations : k[2] \in eids /\ k[1] \in DOMAIN places})
             keep == [i \in DOMAIN rows |->
                         /\ ~placelocation.loc.null =>
                                Miles(placelocation.loc, places[rows[i][1]].coords)
                                    <= placelocation.rad
                         /\ placetype # NoType => placetype \in PlaceTypes(rows[i][1])]
             idx == Indices(rows, keep, 1)
         IN [k \in DOMAIN idx |->
                LET pid == rows[idx[k]][1]
                IN [id |-> pid, name |-> places[pid].name, coords |-> places[pid].coords,
                    types |-> PlaceTypes(pid)]]

\* research.get_location_data: every cell 0, then the stored counters
get_location_data(evs, pls) ==
    LET eids == {evs[i].id : i \in DOMAIN evs}
        pids == {pls[i].id : i \in DOMAIN pls}
    IN [status |-> 200, events |-> evs, places |-> pls,
        visits |-> [e \in eids |->
                       [p \in pids |->
                           IF <<p, e>> \in DOMAIN locations THEN locations[<<p, e>>] ELSE 0]]]

ResearchError(status) == [status |-> status, events |-> <<>>, places |-> <<>>, visits |-> <<>>]

\* get_research_info after authentication, on the arguments a:
\*  - "start" makes the view read request.args["startdate"], a 400 when
\*    that key is absent;
\*  - "end" makes it assign enddate.hour, which datetime refuses
\*    (AttributeError, not caught);
\*  - an "eventid" of a stored event puts the tuple (eventid, name) in the
\*    event list, and get_places indexes it with "id" (TypeError);
\*  - the event circle is read from eventlat, eventlon and eventradius.
get_research_info_view(a) ==
    IF a.start /\ a.startdate = NoDay THEN ResearchError(400)
    ELSE IF a.end # NoDay THEN ResearchError(500)
    ELSE IF a.eventid # NoEventArg
    THEN IF get_event_name(a.eventid) # NullText
         THEN ResearchError(500)
         ELSE get_location_data(<<>>, get_places(<<>>, a.placetype, a.placelocation))
    ELSE LET startdate == IF a.start THEN to_datetime(a.startdate, FALSE) ELSE NoneDt
             eventlist == get_events(a.eventquery, startdate, NoneDt, a.eventlocation)
         IN get_location_data(eventlist, get_places(eventlist, a.placetype, a.placelocation))

\* request inputs of GET /research
ResearchQueries == {NoQuery, <<" ">>, <<"c">>}
ResearchCircles == {NoCircle, Circle(Point(0, 0), 1)}
ResearchTypes == {NoType, "point_of_interest"}

NoResearchArgs ==
    [start |-> FALSE, startdate |-> NoDay, end |-> NoDay, eventid |-> NoEventArg,
     eventquery |-> NoQuery, eventlocation |-> NoCircle,
     placetype |-> NoType, placelocation |-> NoCircle]

\* A request without valid credentials, or one whose date arguments end
\* it, is drawn without further arguments; a request that names an event
\* id is drawn without filters, which the view does not read before it
\* answers.
ResearchArgs ==
    {[NoResearchArgs EXCEPT !.start = TRUE],
     [NoResearchArgs EXCEPT !.startdate = 1]}
    \cup {[NoResearchArgs EXCEPT !.end = d] : d \in SearchDays}
    \cup {[NoResearchArgs EXCEPT !.start = TRUE, !.startdate = 1, !.end = d] : d \in SearchDays}
    \cup {[NoResearchArgs EXCEPT !.eventid = e] : e \in 1..(MaxEvents + 1)}
    \cup {[start |-> sd # NoDay, startdate |-> sd, end |-> NoDay, eventid |-> NoEventArg,
           eventquery |-> q, eventlocation |-> ec, placetype |-> t, placelocation |-> pc2] :
             sd \in DayArgs, q \in ResearchQueries, ec \in ResearchCircles,
             t \in ResearchTypes, pc2 \in ResearchCircles}

\* GET /research, wrapped in @authenticate; g.userid is not read
get_research_info ==
    /\ pc = "handler"
    /\ \E auth \in Credentials, a \in ResearchArgs :
        /\ auth = NoUser => a = NoResearchArgs
        /\ req' = [op |-> "get_research_info", authenticated |-> auth # NoUser, args |-> a]
        /\ resp' = IF auth = NoUser THEN ResearchError(401) ELSE get_research_info_view(a)
    /\ pc' = "after"
    /\ UNCHANGED <<store, conn, attempts, threads>>

\* ------------------------------------------------------ initial stores
EventNames == {<<"a">>, <<"b">>}
EventPoints == {NullPoint, Point(0, 0), Point(0, 2)}

\* The rows the write path admits: the embedding is the one create_event
\* computes from the text, and start and end are any two valid dates
\* (validate_create_inputs assigns both parsed dates to startdt, so its
\* start > end test never fires and no order between them is imposed).
\* Stored events run from day 1 to day 2, or, out of order, from day 2 to
\* day 1; the search windows range over every day.
EventSpans == {<<1, 2>>, <<2, 1>>}

EventRows(id) ==
    {[id |-> id, displayname |-> n, description |-> NullText,
      start |-> to_datetime(d[1], FALSE), end |-> to_datetime(d[2], TRUE),
      host |-> 1, coords |-> c, place |-> NoPlace,
      embedding |-> GetEmbedding(EventEmbStr(n, NullText))] :
        n \in EventNames, d \in EventSpans, c \in EventPoints}


RECURSIVE EventTables(_)
EventTables(n) ==
    IF n = 0 THEN {<<>>}
    ELSE LET prev == EventTables(n - 1)
         IN prev \cup {Append(t, r) : t \in {p \in prev : Len(p) = n - 1}, r \in EventRows(n)}

InitSearch ==
    /\ events \in EventTables(MaxEvents)
    /\ places = <<>>
    /\ placetypes = {}
    /\ locations = <<>>
    /\ attendees = {}
    /\ messages = {}
    /\ conn = <<>>
    /\ attempts = 0
    /\ pc = "idle"
    /\ req = NoReq
    /\ resp = NoResp
    /\ threads = <<>>

NextSearch == connect \/ event_search \/ disconnect

SpecSearch == InitSearch /\ [][NextSearch]_vars

\* the locations tables that at most n visit reports on the keys K leave:
\* a row is created by the first report and incremented by each later one
RECURSIVE VisitTables(_, _)
VisitTables(K, n) ==
    IF n = 0 THEN {[k \in {} |-> 0]}
    ELSE LET prev == VisitTables(K, n - 1)
         IN prev \cup
            {[j \in DOMAIN t \cup {k} |->
                 IF j = k THEN (IF k \in DOMAIN t THEN t[k] + 1 ELSE 1) ELSE t[j]] :
                 t \in prev, k \in K}

\* The events of the recommendation store are alike and the users are
\* interchangeable, so the seeded attendance is user 1 attending the first
\* k events; visit records are seeded on any event.
FixedEvents ==
    [i \in EventIds |->
        [id |-> i, displayname |-> <<"a">>, description |-> NullText,
         start |-> to_datetime(1, FALSE), end |-> to_datetime(1, TRUE),
         host |-> 1, coords |-> NullPoint, place |-> NoPlace,
         embedding |-> GetEmbedding(EventEmbStr(<<"a">>, NullText))]]

InitRecommend ==
    /\ events = FixedEvents
    /\ \E S \in SUBSET PlaceIds :
        /\ places = [i \in S |-> StoredPlace(ProviderPlace(i, 1))]
        /\ placetypes = UNION {{<<i, t>> : t \in ProviderPlace(i, 1).types} : i \in S}
        /\ locations \in VisitTables(S \X EventIds, MaxReports)
    /\ \E k \in 0..MaxEvents : attendees = {<<1, e>> : e \in 1..k}
    /\ messages = {}
    /\ conn = <<>>
    /\ attempts = 0
    /\ pc = "idle"
    /\ req = NoReq
    /\ resp = NoResp
    /\ threads = <<>>

NextRecommend == connect \/ get_recommendations \/ visit_location \/ disconnect

SpecRecommend == InitRecommend /\ [][NextRecommend]_vars

\* The research store.  Every place the provider knows is stored: place 1
\* as the provider's version 1 (at the search point, a cafe), the others as
\* version 2 (two miles off, a cafe and a point of interest).
ResearchPlaces ==
    [i \in PlaceIds |-> StoredPlace(ProviderPlace(i, IF i = 1 THEN 1 ELSE 2))]

ResearchPlaceTypes ==
    UNION {{<<i, t>> : t \in ProviderPlace(i, IF i = 1 THEN 1 ELSE 2).types} : i \in PlaceIds}

\* events of the research store: a name, a span and the place the event is
\* held at (events.place), NoPlace for none
ResearchEventRows(id) ==
    {[id |-> id, displayname |-> n, description |-> NullText,
      start |-> to_datetime(d[1], FALSE), end |-> to_datetime(d[2], TRUE),
      host |-> 1, coords |-> NullPoint, place |-> pl,
      embedding |-> GetEmbedding(EventEmbStr(n, NullText))] :
        n \in EventNames, d \in EventSpans, pl \in {NoPlace} \cup PlaceIds}

RECURSIVE ResearchEventTables(_)
ResearchEventTables(n) ==
    IF n = 0 THEN {<<>>}
    ELSE LET prev == ResearchEventTables(n - 1)
         IN prev \cup {Append(t, r) : t \in {p \in prev : Len(p) = n - 1},
                                      r \in ResearchEventRows(n)}

\* visit records: place 1 seen once at event 1 and once at event 2, place 2
\* seen twice at event 1
SeedVisits == [k \in {<<1, 1>>, <<1, 2>>, <<2, 1>>} |-> k[1]]

\* every event named "a", running from day 1 to day 2, held at place 1
ResearchFixedEvents ==
    [i \in EventIds |->
        [id |-> i, displayname |-> <<"a">>, description |-> NullText,
         start |-> to_datetime(1, FALSE), end |-> to_datetime(2, TRUE),
         host |-> 1, coords |-> NullPoint, place |-> 1,
         embedding |-> GetEmbedding(EventEmbStr(<<"a">>, NullText))]]

\* Two families of stores: any events over the seeded visit records of the
\* events present, and the fixed events over any visit records that up to
\* MaxReports earlier reports leave.
InitResearch ==
    /\ \/ /\ events \in ResearchEventTables(MaxEvents)
          /\ locations = [k \in {x \in DOMAIN SeedVisits : x[2] <= Len(events)} |-> SeedVisits[k]]
       \/ /\ events = ResearchFixedEvents
          /\ locations \in VisitTables(PlaceIds \X EventIds, MaxReports)
    /\ places = ResearchPlaces
    /\ placetypes = ResearchPlaceTypes
    /\ attendees = {}
    /\ messages = {}
    /\ conn = <<>>
    /\ attempts = 0
    /\ pc = "idle"
    /\ req = NoReq
    /\ resp = NoResp
    /\ threads = <<>>

NextResearch == connect \/ get_research_info \/ disconnect

SpecResearch == InitResearch /\ [][NextResearch]_vars

\* The event store: events written by a valid create, each with its host,
\* running from day 1 to day 2
StoredEventRows(id) ==
    {[id |-> id, displayname |-> n, description |-> NullText,
      start |-> to_datetime(1, FALSE), end |-> to_datetime(2, TRUE),
      host |-> h, coords |-> NullPoint, place |-> NoPlace,
      embedding |-> GetEmbedding(EventEmbStr(n, NullText))] :
        n \in EventNames, h \in Users}

RECURSIVE StoredEventTables(_)
StoredEventTables(n) ==
    IF n = 0 THEN {<<>>}
    ELSE LET prev == StoredEventTables(n - 1)
         IN prev \cup {Append(t, r) : t \in {p \in prev : Len(p) = n - 1},
                                      r \in StoredEventRows(n)}

InitEvent ==
    /\ events \in StoredEventTables(MaxEvents)
    /\ places = <<>>
    /\ placetypes = {}
    /\ locations = <<>>
    /\ attendees = {}
    /\ messages = {}
    /\ conn = <<>>
    /\ attempts = 0
    /\ pc = "idle"
    /\ req = NoReq
    /\ resp = NoResp
    /\ threads = <<>>

NextEvent == connect \/ create \/ event_patch \/ disconnect

SpecEvent == InitEvent /\ [][NextEvent]_vars

\* Attendance and deletion start from every event stored, hosted by the
\* users in turn, nobody attending
MemberEvents ==
    [id \in 1..MaxEvents |->
        [id |-> id, displayname |-> <<"a">>, description |-> NullText,
         start |-> to_datetime(1, FALSE), end |-> to_datetime(2, TRUE),
         host |-> ((id - 1) % MaxUsers) + 1, coords |-> NullPoint, place |-> NoPlace,
         embedding |-> GetEmbedding(EventEmbStr(<<"a">>, NullText))]]

InitMembers ==
    /\ events = MemberEvents
    /\ places = <<>>
    /\ placetypes = {}
    /\ locations = <<>>
    /\ attendees = {}
    /\ messages = {}
    /\ conn = <<>>
    /\ pc = "idle"
    /\ attempts = 0
    /\ req = NoReq
    /\ resp = NoResp
    /\ threads = <<>>

NextMembers == connect \/ event_user_put \/ event_delete \/ disconnect

SpecMembers == InitMembers /\ [][NextMembers]_vars

\* The chat store: every event stored, user 1 attending the first k of
\* them, no message sent yet
ChatEvents ==
    [id \in 1..MaxEvents |->
        [id |-> id, displayname |-> <<"a">>, description |-> NullText,
         start |-> to_datetime(1, FALSE), end |-> to_datetime(2, TRUE),
         host |-> 1, coords |-> NullPoint, place |-> NoPlace,
         embedding |-> GetEmbedding(EventEmbStr(<<"a">>, NullText))]]

InitChat ==
    /\ events = ChatEvents
    /\ places = <<>>
    /\ placetypes = {}
    /\ locations = <<>>
    /\ \E k \in 0..MaxEvents : attendees = {<<1, e>> : e \in 1..k}
    /\ messages = {}
    /\ conn = <<>>
    /\ pc = "idle"
    /\ attempts = 0
    /\ req = NoReq
    /\ resp = NoResp
    /\ threads = <<>>

NextChat ==
    connect \/ chat_post \/ send_message_insert \/ send_message_timeout \/ disconnect

SpecChat == InitChat /\ [][NextChat]_vars

\* The request thread runs send_message to its end: a pass of the loop
\* that can be made is made.
SpecChatLive ==
    SpecChat /\ WF_vars(send_message_insert) /\ WF_vars(send_message_timeout)

\* Chat access: the events hosted by the users in turn, user 1 attending
\* the first k of them; every event then has among the users its host, an
\* attendee who is not its host, or a user who is neither
InitAccess ==
    /\ events = MemberEvents
    /\ places = <<>>
    /\ placetypes = {}
    /\ locations = <<>>
    /\ \E k \in 0..MaxEvents : attendees = {<<1, e>> : e \in 1..k}
    /\ messages = {}
    /\ conn = <<>>
    /\ pc = "idle"
    /\ attempts = 0
    /\ req = NoReq
    /\ resp = NoResp
    /\ threads = <<>>

NextAccess ==
    \/ connect
    \/ chat_post
    \/ send_message_insert
    \/ send_message_timeout
    \/ chat_get
    \/ chat_delete
    \/ disconnect

SpecAccess == InitAccess /\ [][NextAccess]_vars

\* Connection lifecycle: the requests of the chat application, whose
\* views return normally and abort with 4xx and 5xx statuses, the failures
\* of the before-request functions, and app.py's /apicall
NextConn ==
    \/ connect
    \/ setup_openai
    \/ get_google_api_key
    \/ chat_post
    \/ send_message_insert
    \/ send_message_timeout
    \/ disconnect
    \/ dbcursor
    \/ apicall
    \/ dbcursor_finally

SpecConn == InitChat /\ [][NextConn]_vars

\* The store of the four operations that read or write visit records: the
\* research places and events, user 1 attending event 1, and any visit
\* records that up to MaxReports earlier reports leave.
InitVisits ==
    /\ events = ResearchFixedEvents
    /\ places = ResearchPlaces
    /\ placetypes = ResearchPlaceTypes
    /\ locations \in VisitTables(PlaceIds \X EventIds, MaxReports)
    /\ attendees = {<<1, 1>>}
    /\ messages = {}
    /\ conn = <<>>
    /\ attempts = 0
    /\ pc = "idle"
    /\ req = NoReq
    /\ resp = NoResp
    /\ threads = <<>>

NextVisits ==
    \/ connect
    \/ visit_location
    \/ get_recommendations
    \/ event_search
    \/ get_research_info
    \/ disconnect

SpecVisits == InitVisits /\ [][NextVisits]_vars

\* ---------------------------------------------- concurrent requests
\* Two requests arrive at a store that holds the events and no place, so
\* that every place id of the provider is unseen.
InitRace ==
    /\ events = MemberEvents
    /\ places = <<>>
    /\ placetypes = {}
    /\ locations = <<>>
    /\ attendees = {}
    /\ messages = {}
    /\ conn = <<>>
    /\ attempts = 0
    /\ pc = "idle"
    /\ req = NoReq
    /\ resp = NoResp
    /\ threads = [t \in Requests |-> IdleThread]

NextRace ==
    \E t \in Requests :
        \/ recommend_search(t)
        \/ recommend_select(t)
        \/ recommend_insert(t)
        \/ recommend_types(t)
        \/ recommend_return(t)
        \/ visit_lookup(t)
        \/ getplaces_select(t)
        \/ getplaces_raise(t)
        \/ visit_return(t)

SpecRace == InitRace /\ [][NextRace]_vars

\* ------------------------------------------------------- whole program
Init ==
    \/ InitSearch \/ InitRecommend \/ InitResearch \/ InitVisits \/ InitEvent \/ InitChat
    \/ InitMembers \/ InitAccess \/ InitRace

Next ==
    \/ connect
    \/ event_search
    \/ get_recommendations
    \/ visit_location
    \/ get_research_info
    \/ create
    \/ event_patch
    \/ event_user_put
    \/ event_delete
    \/ chat_post
    \/ send_message_insert
    \/ send_message_timeout
    \/ chat_get
    \/ chat_delete
    \/ setup_openai
    \/ get_google_api_key
    \/ disconnect
    \/ dbcursor
    \/ apicall
    \/ dbcursor_finally
    \/ NextRace

Spec == Init /\ [][Next]_vars

\* ================================================================ claims
\* -------------------------------------------- vocabulary of the claims
SearchAnswered == pc = "after" /\ req.op = "event_search" /\ req.authenticated
SearchOk == SearchAnswered /\ resp.status = 200

HasQuery == req.query # NoQuery
HasLocation == ~req.loc.null
HasEarliest == req.ey # NoDay
HasLatest == req.ly # NoDay
ReqEarliest == to_datetime(req.ey, FALSE)
ReqLatest == to_datetime(req.ly, TRUE)
ReqRadius == IF req.radius = NoRadius THEN Inf ELSE req.radius

ResultIds == {resp.body[k].id : k \in DOMAIN resp.body}
RowOf(id) == CHOOSE r \in Range(events) : r.id = id
Instant(cal) == 2 * cal.day + cal.late

\* the interval-overlap test of the specification
Overlaps(row) ==
    /\ ~(HasEarliest /\ row.end < ReqEarliest)
    /\ ~(HasLatest /\ row.start > ReqLatest)

\* the date test the search applies: the event lies inside the window
InsideWindow(row) ==
    /\ ~(HasEarliest /\ row.start < ReqEarliest)
    /\ ~(HasLatest /\ row.end > ReqLatest)

WithinRadius(row) == ~row.coords.null /\ Miles(req.loc, row.coords) <= ReqRadius

\* C1: in both search paths a stored event is excluded by the temporal
\* filter if and only if its end is before earliest or its start is after
\* latest; stated on the events with start <= end that the spatial test of
\* the path admits.
C1_TemporalOverlapFilter ==
    SearchOk =>
        \A r \in Range(events) :
            (r.start <= r.end /\ (HasLocation => WithinRadius(r)))
                => (r.id \in ResultIds <=> Overlaps(r))

C3_LocationSearchExact ==
    (SearchOk /\ HasLocation /\ ~HasQuery /\ \A r \in Range(events) : r.start <= r.end) =>
        /\ ResultIds = {r.id : r \in {x \in Range(events) : Overlaps(x) /\ WithinRadius(x)}}
        /\ \A k \in DOMAIN resp.body :
              resp.body[k].distance = Miles(req.loc, RowOf(resp.body[k].id).coords)
        /\ \A k \in 1..(Len(resp.body) - 1) :
              resp.body[k].distance <= resp.body[k + 1].distance

\* C4 (as stated): with a query and a location no event is excluded for its
\* distance or its missing coords; an event without coords is returned
\* with distance = null and location = null.
C4_QueryLocationNeverExcludes ==
    (SearchOk /\ HasQuery /\ HasLocation) =>
        \A r \in Range(events) :
            InsideWindow(r) =>
                /\ r.id \in ResultIds
                /\ r.coords.null =>
                      \E k \in DOMAIN resp.body :
                          /\ resp.body[k].id = r.id
                          /\ resp.body[k].distance = NoDistance
                          /\ resp.body[k].location.null

\* C4 (amended): with a query and a location, an event is excluded when its
\* coords are null or its distance exceeds the radius (infinite when none
\* is supplied) and every returned event carries its distance and
\* location; an event without coords is returned, with distance = null and
\* location = null, only when no location is given.
C4_QueryLocationExcludes ==
    (SearchOk /\ HasQuery) =>
        /\ ResultIds = {r.id : r \in {x \in Range(events) :
                            InsideWindow(x) /\ (HasLocation => WithinRadius(x))}}
        /\ \A k \in DOMAIN resp.body :
              LET r == RowOf(resp.body[k].id)
              IN /\ resp.body[k].location = r.coords
                 /\ resp.body[k].distance =
                        IF HasLocation THEN Miles(req.loc, r.coords) ELSE NoDistance
                 /\ r.coords.null => ~HasLocation

C4_Witness ==
    /\ SearchOk /\ HasQuery /\ HasLocation /\ req.radius = 1
    /\ \E r \in Range(events) : InsideWindow(r) /\ r.coords.null /\ r.id \notin ResultIds
    /\ \E r \in Range(events) : InsideWindow(r) /\ ~r.coords.null /\ r.id \notin ResultIds

\* C5: with a non-empty query and at least two candidates the similarity of
\* the query to the stored embeddings is non-increasing along the result,
\* and the result holds each candidate exactly once and nothing else.
QuerySimilarity(id) ==
    CosineSimilarity(GetEmbedding(QueryEmbStr(req.query)), RowOf(id).embedding)

Candidates == {r.id : r \in {x \in Range(events) :
                    InsideWindow(x) /\ (HasLocation => WithinRadius(x))}}

IsBlank(query) == Strip(query) = <<>>

C6_InvalidArgumentAnyRadius ==
    (/\ SearchAnswered
     /\ \/ (req.radius # NoRadius /\ req.radius < 0)
        \/ (~HasQuery /\ ~HasLocation)
        \/ (HasQuery /\ ~HasLocation /\ IsBlank(req.query)))
    => (resp.status = 400 /\ resp.body = <<>>)

\* C6 (amended): the search answers 400 with no results whenever lat and
\* lon are supplied and the supplied radius is negative, or neither query
\* nor location is supplied, or the query is the only criterion and is
\* blank.
C6_InvalidArgument ==
    (/\ SearchAnswered
     /\ \/ (HasLocation /\ req.radius # NoRadius /\ req.radius < 0)
        \/ (~HasQuery /\ ~HasLocation)
        \/ (HasQuery /\ ~HasLocation /\ IsBlank(req.query)))
    => (resp.status = 400 /\ resp.body = <<>>)

C6_Witness ==
    /\ SearchAnswered /\ HasLocation /\ HasQuery /\ ~IsBlank(req.query)
    /\ req.radius < 0 /\ req.radius # NoRadius
    /\ resp.status = 400
    /\ Len(events) >= 1

\* ---------------------------------------------------- recommendations
RecommendOk == pc = "after" /\ req.op = "get_recommendations" /\ resp.status = 200

Score(p) == p.visits + p.index

\* the visit counters of place pid summed over the events user u attends
AttendedVisits(pid, u) ==
    SumOver([k \in DOMAIN locations |-> IF <<u, k[2]>> \in attendees THEN locations[k] ELSE 0],
            {k \in DOMAIN locations : k[1] = pid})

\* C7: recommendPlaces returns the provider's places in ascending order of
\* visits + index, index being the 0-based position in the provider
\* response; of two places with equal visits the lower index comes first.
C7_RankedByVisitsPlusIndex ==
    RecommendOk =>
        /\ Len(resp.ranked) = Len(req.provider)
        /\ Len(resp.body) = Len(req.provider)
        /\ {resp.ranked[k].index : k \in DOMAIN resp.ranked} = 0..(Len(req.provider) - 1)
        /\ \A k \in DOMAIN resp.ranked :
              /\ resp.ranked[k].place = req.provider[resp.ranked[k].index + 1]
              /\ resp.body[k].name = resp.ranked[k].place.displayName
              /\ resp.body[k].address = resp.ranked[k].place.formattedAddress
        /\ \A k \in 1..(Len(resp.ranked) - 1) :
              Score(resp.ranked[k]) <= Score(resp.ranked[k + 1])
        /\ \A j, k \in DOMAIN resp.ranked :
              (resp.ranked[j].visits = resp.ranked[k].visits
                 /\ resp.ranked[j].index < resp.ranked[k].index) => j < k

\* a visited place at index 0 ranked behind an unvisited one at index 1
C7_Witness ==
    /\ RecommendOk /\ Len(resp.ranked) = 2
    /\ resp.ranked[1].index = 1 /\ resp.ranked[1].visits = 0
    /\ resp.ranked[2].index = 0 /\ resp.ranked[2].visits >= 2

\* C8: when the provider returns A at index 0 with 3 summed visits and B at
\* index 1 with 0 summed visits, A is ranked before B.
C8_VisitedPlaceFirst ==
    (/\ RecommendOk /\ Len(req.provider) = 2
     /\ AttendedVisits(req.provider[1].id, req.auth) = 3
     /\ AttendedVisits(req.provider[2].id, req.auth) = 0)
    => resp.ranked[1].index = 0

\* C9: the visits value of each candidate is the sum of the visit counters
\* of that place over exactly the events the requesting user attends, and
\* 0 when there is no such visit record.
C9_VisitsOverAttendedEvents ==
    RecommendOk =>
        \A k \in DOMAIN resp.ranked :
            LET pid == resp.ranked[k].place.id
            IN /\ resp.ranked[k].visits = AttendedVisits(pid, req.auth)
               /\ (\A e \in EventIds :
                      ~(<<pid, e>> \in DOMAIN locations /\ <<req.auth, e>> \in attendees))
                    => resp.ranked[k].visits = 0

\* a candidate with records for an attended and for an unattended event,
\* and a candidate without any attended record
C9_Witness ==
    /\ RecommendOk
    /\ \E k \in DOMAIN resp.ranked :
          \E e1, e2 \in EventIds :
              /\ <<resp.ranked[k].place.id, e1>> \in DOMAIN locations
              /\ <<resp.ranked[k].place.id, e2>> \in DOMAIN locations
              /\ <<req.auth, e1>> \in attendees
              /\ <<req.auth, e2>> \notin attendees
              /\ resp.ranked[k].visits = locations[<<resp.ranked[k].place.id, e1>>]
    /\ \E k \in DOMAIN resp.ranked : resp.ranked[k].visits = 0

\* C10: a handler step that received provider results leaves every stored
\* place's name, address and coords as they were, and for every result
\* with an unseen id it creates the place row and one type row per entry
\* of its types.
TypesOf(pt, id) == {r[2] : r \in {x \in pt : x[1] = id}}

C10_PlaceUpsert ==
    [][(pc = "handler" /\ pc' = "after"
            /\ req'.op \in {"get_recommendations", "visit_location"}) =>
          /\ \A id \in DOMAIN places : id \in DOMAIN places' /\ places'[id] = places[id]
          /\ \A k \in DOMAIN resp'.results :
                LET c == resp'.results[k]
                IN c.id \notin DOMAIN places =>
                      /\ c.id \in DOMAIN places'
                      /\ places'[c.id] = StoredPlace(c)
                      /\ TypesOf(placetypes', c.id) = c.types]_vars

\* C11: a recommendation request whose category is missing, empty or
\* whitespace-only, or whose origin is missing or outside lat [-90, 90] /
\* lon [-180, 180], is answered 400 without a call to the provider and
\* without writing a place or place-type row.
BadCategory(q) == q = NoQuery \/ Strip(q) = <<>>

BadOrigin(loc) ==
    loc.null \/ loc.lat < MinLat \/ loc.lat > MaxLat \/ loc.lon < MinLon \/ loc.lon > MaxLon

C11_RecommendInvalidArgument ==
    [][(/\ pc = "handler" /\ pc' = "after"
        /\ req'.op = "get_recommendations" /\ req'.auth # NoUser
        /\ (BadCategory(req'.q) \/ BadOrigin(req'.loc))) =>
          /\ resp'.status = 400
          /\ resp'.calls = 0
          /\ places' = places
          /\ placetypes' = placetypes]_vars

\* a request with a good category and an origin north of the pole, answered
\* 400 although the provider knows places that are not stored
C11_Witness ==
    /\ pc = "after" /\ req.op = "get_recommendations" /\ req.auth # NoUser
    /\ ~BadCategory(req.q) /\ ~req.loc.null /\ req.loc.lat > MaxLat
    /\ resp.status = 400 /\ resp.calls = 0
    /\ DOMAIN places # PlaceIds

\* -------------------------------------------------- research cross-tab
ResearchAnswered == pc = "after" /\ req.op = "get_research_info" /\ req.authenticated
ResearchOk == ResearchAnswered /\ resp.status = 200
NamesNoDate == ~req.args.start /\ req.args.end = NoDay

RetEventIds == {resp.events[k].id : k \in DOMAIN resp.events}
RetPlaceIds == {resp.places[k].id : k \in DOMAIN resp.places}

HasEventQuery == req.args.eventquery # NoQuery /\ ~IsBlank(req.args.eventquery)

EventSimilarity(r) ==
    CosineSimilarity(GetEmbedding(QueryEmbStr(req.args.eventquery)), r.embedding)

\* the event is held at a stored place, ends no earlier than the start date
\* when one is given, and its place lies in the event circle when one is given
PassesDateAndLocation(r) ==
    /\ r.place \in DOMAIN places
    /\ req.args.start => r.end >= to_datetime(req.args.startdate, FALSE)
    /\ ~req.args.eventlocation.loc.null =>
           Miles(req.args.eventlocation.loc, places[r.place].coords)
               <= req.args.eventlocation.rad

\* the event set the request resolves to: the stored event of the explicit
\* id, or the events that pass the filters
ResolvedEvents ==
    IF req.args.eventid # NoEventArg
    THEN {r.id : r \in {x \in Range(events) : x.id = req.args.eventid}}
    ELSE {r.id : r \in {x \in Range(events) :
              PassesDateAndLocation(x) /\ (HasEventQuery => EventSimilarity(x) >= 85)}}

\* the places with a visit record for one of the events E that pass the
\* place filters
PlacesOf(E) ==
    {p \in DOMAIN places :
        /\ \E e \in E : <<p, e>> \in DOMAIN locations
        /\ req.args.placetype # NoType =>
               \E row \in placetypes : row[1] = p /\ row[2] = req.args.placetype
        /\ ~req.args.placelocation.loc.null =>
               Miles(req.args.placelocation.loc, places[p].coords)
                   <= req.args.placelocation.rad}

VisitCount(p, e) == IF <<p, e>> \in DOMAIN locations THEN locations[<<p, e>>] ELSE 0

\* C12: for an explicit event id and for a filter alike the request returns
\* a dense matrix: the keys of visits are the ids of the returned events,
\* the keys of every visits[e] are the ids of the returned places, and
\* visits[e][p] is the stored counter of (p, e), 0 without a record.
\* Stated for the requests that name no date.
C12_DenseMatrix ==
    (ResearchAnswered /\ NamesNoDate) =>
        /\ resp.status = 200
        /\ DOMAIN resp.visits = RetEventIds
        /\ \A e \in RetEventIds :
              /\ DOMAIN resp.visits[e] = RetPlaceIds
              /\ \A p \in RetPlaceIds : resp.visits[e][p] = VisitCount(p, e)

\* C13: a request whose resolved event set or resolved place set is empty
\* succeeds and returns the empty mapping as visits.  Stated for the
\* requests that name no date.
C13_EmptyAxis ==
    (ResearchAnswered /\ NamesNoDate
        /\ (ResolvedEvents = {} \/ PlacesOf(ResolvedEvents) = {})) =>
        /\ resp.status = 200
        /\ resp.visits = <<>>

\* C14: the returned places are exactly the places that have a visit
\* record with a returned event and pass the placeType and the
\* (location, radius) filters, each of them once.
C14_PlaceSet ==
    ResearchOk =>
        /\ RetPlaceIds = PlacesOf(RetEventIds)
        /\ Len(resp.places) = Cardinality(RetPlaceIds)

C16_VisitsOnlyAdditive ==
    [][\A k \in DOMAIN locations :
          k \in DOMAIN locations' /\ locations'[k] >= locations[k]]_vars

\* a visit report answered 204 for an event that has visit records
C16_Witness ==
    /\ pc = "after" /\ req.op = "visit_location" /\ resp.status = 204
    /\ \E k \in DOMAIN locations : k[2] = req.eventid

\* ------------------------------------------------------------ C17, C18
CreateAnswered == pc = "after" /\ req.op = "create" /\ req.auth # NoUser

\* a PATCH sent by the host of a stored event
PatchByHost ==
    /\ pc = "after" /\ req.op = "event_patch"
    /\ \E r \in Range(events) : r.id = req.eventid /\ r.host = req.auth

PatchedRow == CHOOSE r \in Range(events) : r.id = req.eventid

\* the body of the create request passes every rule of the validation
\* as the interface states it
CreateBodyValid ==
    /\ Strip(req.displayname) # <<>> /\ Len(req.displayname) <= MaxNameLen
    /\ req.description = NullText \/ Len(req.description) <= MaxDescriptionLen
    /\ ValidDay(req.start) /\ ValidDay(req.end)
    /\ to_datetime(req.start, FALSE) <= to_datetime(req.end, TRUE)
    /\ req.location.null \/ ValidOrigin(req.location)

\* the values an event has after the patch is applied to the stored row
ResultingName == IF req.kw.displayname # NoArgText THEN req.kw.displayname
                 ELSE PatchedRow.displayname
ResultingDescription == IF req.kw.description # NoArgText THEN req.kw.description
                        ELSE PatchedRow.description
ResultingStart == IF req.kw.start # NoDay THEN to_datetime(req.kw.start, FALSE)
                  ELSE PatchedRow.start
ResultingEnd == IF req.kw.end # NoDay THEN to_datetime(req.kw.end, TRUE)
                ELSE PatchedRow.end
PatchDatesValid ==
    /\ req.kw.start # NoDay => ValidDay(req.kw.start)
    /\ req.kw.end # NoDay => ValidDay(req.kw.end)
PatchBodyValid == PatchDatesValid /\ ResultingStart <= ResultingEnd

\* C17: every stored event carries the embedding of its trimmed name plus,
\* when it has one, a space and its trimmed description; a valid create
\* answers 200 and stores the new event with that embedding; a valid patch
\* by the host that names the name or the description answers 204 and the
\* stored embedding is that of the resulting text.
C17_EmbeddingConsistency ==
    /\ \A r \in Range(events) :
           r.embedding = GetEmbedding(EventEmbStr(r.displayname, r.description))
    /\ (CreateAnswered /\ CreateBodyValid) =>
           /\ resp.status = 200
           /\ \E r \in Range(events) :
                  /\ r.id = resp.id
                  /\ r.displayname = req.displayname
                  /\ r.embedding = GetEmbedding(EventEmbStr(req.displayname, req.description))
    /\ (/\ PatchByHost /\ PatchBodyValid
        /\ (req.kw.displayname # NoArgText \/ req.kw.description # NoArgText)) =>
           /\ resp.status = 204
           /\ PatchedRow.displayname = ResultingName
           /\ PatchedRow.embedding = GetEmbedding(EventEmbStr(ResultingName, ResultingDescription))

\* C18: every stored event starts no later than it ends, and a create or a
\* patch whose resulting start is later than its resulting end is answered
\* 422 with an error on the field end and leaves the stored events as
\* they were.
C18_StartNotAfterEnd ==
    /\ [](\A r \in Range(events) : r.start <= r.end)
    /\ [][(pc = "handler" /\ pc' = "after") =>
            /\ (/\ req'.op = "create" /\ req'.auth # NoUser
                /\ ValidDay(req'.start) /\ ValidDay(req'.end)
                /\ to_datetime(req'.start, FALSE) > to_datetime(req'.end, TRUE)) =>
                   /\ resp'.status = 422
                   /\ \E i \in DOMAIN resp'.errors : resp'.errors[i].field = "end"
                   /\ events' = events
            /\ (PatchByHost' /\ PatchDatesValid' /\ ResultingStart' > ResultingEnd') =>
                   /\ resp'.status = 422
                   /\ \E i \in DOMAIN resp'.errors : resp'.errors[i].field = "end"
                   /\ events' = events]_vars

\* ----------------------------------------------------------------- C19
Sending == pc = "sending"

\* C19: send_message executes at most 100 INSERTs; a pass that meets no
\* uniqueness conflict stores exactly one message, that of the request, and
\* answers 200 with its time; a pass that meets one stores nothing; the
\* request is answered 500, with nothing stored, only after 100 conflicts in
\* a row; and every request that entered the loop is answered.
C19_BoundedRetry ==
    /\ [](attempts <= MaxAttempts)
    /\ [][Sending =>
            \/ /\ Sending' /\ attempts < MaxAttempts /\ attempts' = attempts + 1
               /\ messages' = messages
            \/ /\ pc' = "after" /\ resp'.status = 200 /\ attempts < MaxAttempts
               /\ \E m \in messages' \ messages :
                      /\ messages' = messages \cup {m}
                      /\ m.eventid = req.eventid /\ m.sender = req.auth
                      /\ m.content = req.body.text /\ m.time = resp'.time
            \/ /\ pc' = "after" /\ resp'.status = 500 /\ attempts = MaxAttempts
               /\ messages' = messages]_vars
    /\ Sending ~> (pc = "after")

C19_Witness ==
    /\ pc = "after" /\ req.op = "chat_post" /\ resp.status = 500 /\ attempts = MaxAttempts
    /\ messages # {}

\* ----------------------------------------------------------------- C20
\* no request is in progress
RequestEnded == pc = "idle"

ViolatedRules(displayname, description, start, end, location) ==
    {r \in {"displayname empty", "displayname long", "description long", "start invalid",
            "end invalid", "end before start", "latitude", "longitude"} :
        \/ r = "displayname empty" /\ Strip(displayname) = <<>>
        \/ r = "displayname long" /\ Len(displayname) > MaxNameLen
        \/ r = "description long" /\ description # NullText
                                  /\ Len(description) > MaxDescriptionLen
        \/ r = "start invalid" /\ ~ValidDay(start)
        \/ r = "end invalid" /\ ~ValidDay(end)
        \/ r = "end before start" /\ ValidDay(start) /\ ValidDay(end)
                                  /\ to_datetime(start, FALSE) > to_datetime(end, TRUE)
        \/ r = "latitude" /\ ~location.null
                          /\ ~(MinLat <= location.lat /\ location.lat <= MaxLat)
        \/ r = "longitude" /\ ~location.null
                           /\ ~(MinLon <= location.lon /\ location.lon <= MaxLon)}

CreateViolations ==
    ViolatedRules(req.displayname, req.description, req.start, req.end, req.location)

\* the rules violated by the dates a patch names
PatchViolations ==
    {r \in {"start invalid", "end invalid"} :
        \/ r = "start invalid" /\ req.kw.start # NoDay /\ ~ValidDay(req.kw.start)
        \/ r = "end invalid" /\ req.kw.end # NoDay /\ ~ValidDay(req.kw.end)}

\* C21: a create, or a patch by the host, that violates validation rules is
\* answered 422 with one error entry for each violated rule, and the stored
\* events are left as they were.
C21_ErrorsCollected ==
    [][(pc = "handler" /\ pc' = "after") =>
          /\ (CreateAnswered' /\ CreateViolations' # {}) =>
                 /\ resp'.status = 422
                 /\ Len(resp'.errors) = Cardinality(CreateViolations')
                 /\ events' = events
          /\ (PatchByHost' /\ PatchViolations' # {}) =>
                 /\ resp'.status = 422
                 /\ Len(resp'.errors) = Cardinality(PatchViolations')
                 /\ events' = events]_vars

\* ------------------------------------------------------------ C22, C23
\* C22: for a stored event, a PUT by user u for u that finds no row (u,
\* event) answers 201 and adds that row and no other; one that finds the row
\* answers 204 and leaves attendance as it was, so no INSERT is made for a
\* pair that is present; a PUT naming another user answers 403 and a PUT on
\* an event that is not stored answers 404, attendance unchanged.
C22_AddUserIdempotent ==
    [][(pc = "handler" /\ pc' = "after" /\ req'.op = "event_user_put" /\ req'.auth # NoUser) =>
          LET pair == <<req'.auth, req'.eventid>>
          IN IF ~EventStored(req'.eventid)
             THEN resp'.status = 404 /\ attendees' = attendees
             ELSE IF req'.userid # req'.auth
             THEN resp'.status = 403 /\ attendees' = attendees
             ELSE IF pair \in attendees
             THEN resp'.status = 204 /\ attendees' = attendees
             ELSE resp'.status = 201 /\ attendees' = attendees \cup {pair}]_vars

C22_Witness ==
    /\ pc = "after" /\ req.op = "event_user_put" /\ resp.status = 204
    /\ <<req.auth, req.eventid>> \in attendees

\* C23: DELETE by the host removes the event, and only it, and answers 204;
\* DELETE by another authenticated user answers 403 and DELETE of an event
\* that is not stored answers 404, the stored events unchanged.
C23_DeleteByHostOnly ==
    [][(pc = "handler" /\ pc' = "after" /\ req'.op = "event_delete" /\ req'.auth # NoUser) =>
          IF ~EventStored(req'.eventid)
          THEN resp'.status = 404 /\ events' = events
          ELSE IF EventRow(req'.eventid).host # req'.auth
          THEN resp'.status = 403 /\ events' = events
          ELSE /\ resp'.status = 204
               /\ Range(events') = Range(events) \ {EventRow(req'.eventid)}
               /\ Len(events') = Len(events) - 1]_vars

C23_Witness ==
    /\ pc = "after" /\ req.op = "event_delete" /\ resp.status = 204
    /\ ~EventStored(req.eventid) /\ events # <<>>

\* ----------------------------------------------------------------- C24
IsHost(userid, eventid) == EventStored(eventid) /\ EventRow(eventid).host = userid
IsAttendee(userid, eventid) == <<userid, eventid>> \in attendees

\* C24: send_message stores a message only for a sender who attends the
\* event, and answers 404 for an event that is not stored and 403 for a
\* sender who does not attend, storing nothing; the messages of an event are
\* returned only to its attendees and its host; a message is deleted only on
\* the request of the host of the event or of its sender, and any other user
\* is answered 403, the message left in place.
C24_ChatAccessControl ==
    [][/\ \A m \in messages' \ messages : IsAttendee(m.sender, m.eventid)
       /\ (pc = "handler" /\ req'.op = "chat_post" /\ req'.auth # NoUser
           /\ req'.body.text # NoArgText /\ ~req'.body.eventid
           /\ validate_message(req'.body.text) = NoDescription) =>
              IF ~EventStored(req'.eventid)
              THEN resp'.status = 404 /\ messages' = messages
              ELSE IF ~IsAttendee(req'.auth, req'.eventid)
              THEN resp'.status = 403 /\ messages' = messages
              ELSE pc' = "sending"
       /\ (pc = "handler" /\ req'.op = "chat_get" /\ resp'.status = 200) =>
              IsHost(req'.auth, req'.eventid) \/ IsAttendee(req'.auth, req'.eventid)
       /\ (pc = "handler" /\ req'.op = "chat_delete") =>
              /\ \A m \in messages \ messages' :
                     /\ m.eventid = req'.eventid /\ m.time = req'.time
                     /\ IsHost(req'.auth, m.eventid) \/ req'.auth = m.sender
              /\ (/\ req'.auth # NoUser /\ EventStored(req'.eventid)
                  /\ req'.time \in TimesOf(req'.eventid)
                  /\ ~IsHost(req'.auth, req'.eventid)
                  /\ \A m \in messages :
                         (m.eventid = req'.eventid /\ m.time = req'.time) =>
                             m.sender # req'.auth) =>
                     resp'.status = 403 /\ messages' = messages]_vars

\* a user who is neither the host nor the sender was refused the deletion
C24_Witness ==
    /\ pc = "after" /\ req.op = "chat_delete" /\ resp.status = 403
    /\ \E m \in messages : m.eventid = req.eventid /\ m.time = req.time

\* ----------------------------------------------------------------- C25
\* C25: a patch by the host with a valid body is applied and answers 204:
\* the fields the body names take the values sent, and displayname,
\* description, start, end and coords that it does not name keep their
\* stored values, as do the other events; a patch answered 403, 404 or 422
\* changes nothing.
C25_PatchFrame ==
    [][(pc = "handler" /\ pc' = "after" /\ req'.op = "event_patch" /\ req'.auth # NoUser) =>
          IF ~EventStored(req'.eventid)
          THEN resp'.status = 404 /\ events' = events
          ELSE IF EventRow(req'.eventid).host # req'.auth
          THEN resp'.status = 403 /\ events' = events
          ELSE IF ~PatchBodyValid'
          THEN resp'.status = 422 /\ events' = events
          ELSE LET old == EventRow(req'.eventid)
                   kw == req'.kw
               IN /\ resp'.status = 204
                  /\ \A r \in Range(events) : r.id # old.id => r \in Range(events')
                  /\ \E new \in Range(events') :
                         /\ new.id = old.id
                         /\ new.displayname =
                                IF kw.displayname # NoArgText THEN kw.displayname
                                ELSE old.displayname
                         /\ new.description =
                                IF kw.description # NoArgText THEN kw.description
                                ELSE old.description
                         /\ new.start = IF kw.start # NoDay THEN to_datetime(kw.start, FALSE)
                                        ELSE old.start
                         /\ new.end = IF kw.end # NoDay THEN to_datetime(kw.end, TRUE)
                                      ELSE old.end
                         /\ new.coords = old.coords]_vars

\* ----------------------------------------------------------------- C26
\* the position of a stored event in the scan of the table
ScanIndex(id) == CHOOSE i \in DOMAIN events : events[i].id = id

\* C26: a search with a query asks the provider for at most one embedding,
\* and for none when fewer than two candidates passed the filters, the
\* candidates then being returned in the order of the scan.
C26_EmbedAtMostOnce ==
    (SearchAnswered /\ HasQuery) =>
        /\ resp.embed <= 1
        /\ Len(resp.body) < 2 =>
               /\ resp.embed = 0
               /\ \A k \in 1..(Len(resp.body) - 1) :
                      ScanIndex(resp.body[k].id) < ScanIndex(resp.body[k + 1].id)

C26_Witness ==
    /\ SearchOk /\ HasQuery /\ Len(resp.body) = 1 /\ resp.embed = 0
    /\ Len(events) >= 2

\* ----------------------------------------------------------------- C27
\* C27: a visit report for a stored event e at a point whose places are P
\* is answered 204 and leaves, for every p in P, a record (p, e) whose
\* counter is one above its earlier value, or 1 if there was none; every
\* other record is as it was.  A report for an event that is not stored is
\* answered 404 without a call to the provider and writes no place,
\* place-type or visit row.
C27_VisitReportEffect ==
    [][(pc = "handler" /\ pc' = "after" /\ req'.op = "visit_location") =>
          IF ~EventStored(req'.eventid)
          THEN /\ resp'.status = 404 /\ resp'.calls = 0
               /\ places' = places /\ placetypes' = placetypes /\ locations' = locations
          ELSE LET e == req'.eventid
                   P == {req'.provider[i].id : i \in DOMAIN req'.provider}
                   hit == {<<p, e>> : p \in P}
               IN /\ resp'.status = 204
                  /\ DOMAIN locations' = DOMAIN locations \cup hit
                  /\ \A k \in DOMAIN locations' :
                         locations'[k] =
                             IF k \in hit
                             THEN (IF k \in DOMAIN locations THEN locations[k] ELSE 0) + 1
                             ELSE locations[k]]_vars

\* ----------------------------------------------------------- C28, C29
BothAnswered == threads # <<>> /\ \A t \in Requests : threads[t].pc = "done"
Succeeded(th) ==
    \/ th.op = "get_recommendations" /\ th.status = 200
    \/ th.op = "visit_location" /\ th.status = 204
Received(th, p) == \E k \in DOMAIN th.provider : th.provider[k].id = p
TypeRows(p) == {r \in placetypes : r[1] = p}

\* C28: when two visit reports for the same stored event, both at a point
\* whose reverse geocode returns the same single place, have been answered,
\* both were answered 204 and the (place, event) record, which did not
\* exist before, counts exactly two visits.
C28_ConcurrentVisits ==
    \A e \in EventIds, p \in PlaceIds :
        (/\ BothAnswered
         /\ \A t \in Requests :
               /\ threads[t].op = "visit_location"
               /\ threads[t].eventid = e
               /\ threads[t].provider = <<ProviderPlace(p, 2)>>)
        => /\ \A t \in Requests : threads[t].status = 204
           /\ <<p, e>> \in DOMAIN locations
           /\ locations[<<p, e>>] = 2

\* C29: when two requests (recommendations or visit reports) that both
\* received the place id p, stored nowhere before, have been answered, both
\* succeeded and the store holds one row for p with one set of type rows.
C29_ConcurrentUnseenPlace ==
    \A p \in PlaceIds :
        (/\ BothAnswered
         /\ \A t \in Requests : Received(threads[t], p))
        => /\ \A t \in Requests : Succeeded(threads[t])
           /\ p \in DOMAIN places
           /\ TypeRows(p) = {<<p, ty>> : ty \in ProviderPlace(p, 2).types}

\* ------------------------------------------------------------------ C30
\* a step of request t, which carries no valid credentials
UnauthenticatedStep(t) ==
    /\ threads # <<>>
    /\ threads'[t] # threads[t]
    /\ threads'[t].auth = NoUser

\* C30: every step of a recommendation request or a visit report without
\* valid credentials answers the request 401 and leaves every table of the
\* store as it was.
C30_AuthenticatedMutation ==
    [][\A t \in Requests :
          UnauthenticatedStep(t)
          => /\ threads'[t].pc = "done"
             /\ threads'[t].status = 401
             /\ store' = store]_vars

====
